---- MODULE Spec2Model ----
(***************************************************************************)
(* Model of the shadcn props extractor.                                    *)
(*                                                                         *)
(* Two generations of the extractor live in the repository:                *)
(*   - src/get-component-props.ts  (extractComponentName, three-tier       *)
(*     extractPropsFromFile, extractAllComponentProps, savePropsToFile)    *)
(*   - src/unnamed/part_000        (normalizeComponentName, ComponentData, *)
(*     deduplicateAndNameProps, extractComponentProps, savePropTypes)      *)
(* Definitions that model get-component-props.ts carry the suffix "Gcp"    *)
(* when the same name exists in both files.                                *)
(*                                                                         *)
(* Strings are sequences of one-character strings.  Declaration texts are  *)
(* records (keyword, declared name, body) whose equality is text equality. *)
(***************************************************************************)
EXTENDS Integers, Sequences, FiniteSets, TLC

VARIABLES
    \* ---- name normaliser (SpecNorm) ----
    input,          \* the component identifier given to the normaliser
    site,           \* which normalisation site is exercised
    npc,            \* "start" | "once" | "twice" | "threw"
    rawName,        \* componentName after URL handling
    key1,           \* normalised key of the input
    key2,           \* normalised key of key1
    \* ---- deduplicateAndNameProps / generateTypeExports (SpecDedup) ----
    dCd,            \* componentData of the request
    dFound,         \* foundProps handed to the last deduplicateAndNameProps call
    dResult,        \* what that call returned, each text with the tag of its group
    dExports,       \* text returned by generateTypeExports
    dpc,            \* "ready" | "deduped" | "exported"
    \* ---- isPropsType in the extraction tiers (SpecPred) ----
    pName,          \* declared name of an interface / type alias in a file
    pInput,         \* the component identifier of the request
    pAccepted,      \* tier -> "yes" | "no" | "unset": did the tier accept the declaration
    ppc,            \* number of tiers that have scanned the declaration
    \* ---- one request through main (Spec) ----
    mImpl,          \* "gcp" (get-component-props.ts) | "p000" (part_000)
    mInput,         \* componentNameOrUrl
    mpc,            \* "start" | "install" | "discover" | "extract" | "save" |
                    \* "cleanup" | "failed" | "done"
    mCd,            \* componentData (gcp uses componentName only)
    mRemaining,     \* files of the discovered list not yet processed
    mFile,          \* the file processed last
    mTierLog,       \* the tiers that ran on it, in order, with their outcomes
    mFileProps,     \* what extractPropsFromFile returned for it
    mAllProps,      \* the candidates merged from the files processed so far
    mDoc,           \* the document returned by the extraction stage
    mInstaller,     \* TRUE once an installer process was started
    mSaved,         \* TRUE once an output file was written
    mExit,          \* "running" | "0" | "1"
    mErr,           \* "none" | "invalid-input" | "write" | "timeout"
    \* ---- dependency profile of one request (SpecDeps) ----
    depCd,          \* componentData
    depText,        \* the text scanned by the last call
    depOp,          \* the last call: "none" | "detect" | "primitives" | "typical"
    depCalls,       \* number of calls so far
    \* ---- timers of one request (SpecTimers) ----
    tImpl,          \* "gcp" | "p000"
    tNow,           \* milliseconds since the process started
    tTimers,        \* pending timers in creation order: [name, deadline]
    tpc,            \* "start" | "checking" | "installing" | "fallback" |
                    \* "pipeline" | "done"
    tInstall,       \* "none" | "present" | "ok" | "failed" | "timedOut"
    tOverdue,       \* TRUE once the installer CLI was still running at its time bound
    tExit,          \* "running" | "0" | "1"
    \* ---- external processes started (SpecProc) ----
    procStarted,    \* processes started so far: [command, bound]
    procCalls,      \* number of handlers run so far
    \* ---- one call of formatCode (SpecFormat) ----
    fImpl,          \* "gcp" | "p000"
    fCode,          \* the document given: declarations
    fPascal,        \* pascalName of the component
    fOut,           \* [returned, threw, raised, decls] of the call
    \* ---- saving the document (SpecSave) ----
    sImpl,          \* "gcp" | "p000"
    sInput,         \* the component identifier
    sSave,          \* what the save function did
    sExit,          \* "running" | "0" | "1"
    \* ---- the two documented requests (SpecScenario) ----
    scInput,        \* the component identifier
    scFile,         \* the component file on disk: [found, decls, text]
    scCd,           \* componentData
    scFiles,        \* what findComponentFiles returned: [threw, files]
    scDoc,          \* the output document: [imports, decls, exports]
    scpc,           \* "start" | "find" | "extract" | "done"
    \* ---- extraction of the emitted text (SpecRound) ----
    rCd,            \* componentData
    rFile,          \* declarations and type references of the file
    rEmitted,       \* declarations of the emitted document
    rAgain,         \* texts the structural tier finds in the emitted text
    rpc,            \* "file" | "emitted" | "again"
    \* ---- one run of the command line (SpecCli) ----
    cOptions,       \* the parsed flags: [depsOnly, registry, verbose, cleanup]
    cMissing,       \* number of detected dependencies missing from package.json
    cStarted,       \* processes started during the run
    cpc,            \* "parsed" | "install" | "extract" | "done"
    \* ---- one component-props reference seen by one tier (SpecTag) ----
    tagUtil,        \* the utility of the reference
    tagArg,         \* the text of its type argument
    tagCand,        \* the candidate synthesised for it, NoCand before
    tagpc,          \* "ready" | "scanned"
    \* ---- one call of the synthetic generator (SpecDefault) ----
    defCd,          \* the component data handed to the generator
    defOut,         \* the declarations it returned
    defpc,          \* "ready" | "created"
    \* ---- the events of installShadcnComponent within main (SpecInstall) ----
    insMain,        \* position of main: "start" | "install" | "extract" | "done" | "exited"
    insProc,        \* the shadcn child process: "none" | "running" | "spawnFailed" | "errored" | "killed" | "closed"
    insTimers,      \* the armed timers, in creation order
    insFallbacks,   \* the shadcn-ui fallback invocations started so far
    insResolved,    \* the install promise: "pending" | "true" | "false"
    insCd,          \* componentData of the request
    \* ---- the working directory during one request (SpecCleanup) ----
    clFiles,        \* path -> "absent" | "user" | "tool": who wrote the file that is there
    clpc            \* "start" | "extract" | "saved" | "failed" | "cleaned"

normVars == <<input, site, npc, rawName, key1, key2>>
dedupVars == <<dCd, dFound, dResult, dExports, dpc>>
predVars == <<pName, pInput, pAccepted, ppc>>
mainVars == <<mImpl, mInput, mpc, mCd, mRemaining, mFile, mTierLog, mFileProps,
              mAllProps, mDoc, mInstaller, mSaved, mExit, mErr>>

depVars == <<depCd, depText, depOp, depCalls>>

timerVars == <<tImpl, tNow, tTimers, tpc, tInstall, tOverdue, tExit>>

procVars == <<procStarted, procCalls>>

fmtVars == <<fImpl, fCode, fPascal, fOut>>

saveVars == <<sImpl, sInput, sSave, sExit>>

scVars == <<scInput, scFile, scCd, scFiles, scDoc, scpc>>

roundVars == <<rCd, rFile, rEmitted, rAgain, rpc>>

cliVars == <<cOptions, cMissing, cStarted, cpc>>

tagVars == <<tagUtil, tagArg, tagCand, tagpc>>

defVars == <<defCd, defOut, defpc>>

insVars == <<insMain, insProc, insTimers, insFallbacks, insResolved, insCd>>

clVars == <<clFiles, clpc>>

vars == <<normVars, dedupVars, predVars, mainVars, depVars, timerVars, procVars, fmtVars, saveVars, scVars, roundVars, cliVars, tagVars, defVars, insVars, clVars>>

NULL == "NULL"

(***************************************************************************)
(* Characters                                                              *)
(***************************************************************************)
LowerLetters ==
    <<"a", "b", "c", "d", "e", "f", "g", "h", "i", "j", "k", "l", "m",
      "n", "o", "p", "q", "r", "s", "t", "u", "v", "w", "x", "y", "z">>
UpperLetters ==
    <<"A", "B", "C", "D", "E", "F", "G", "H", "I", "J", "K", "L", "M",
      "N", "O", "P", "Q", "R", "S", "T", "U", "V", "W", "X", "Y", "Z">>
Digits == {"1"}
NUL == "NUL"

IsLower(c) == \E i \in 1..Len(LowerLetters) : LowerLetters[i] = c
IsUpper(c) == \E i \in 1..Len(UpperLetters) : UpperLetters[i] = c
IsDigit(c) == c \in Digits
IsAlnum(c) == IsLower(c) \/ IsUpper(c) \/ IsDigit(c)

\* String.prototype.toLowerCase / toUpperCase on one character
toLowerCaseChar(c) ==
    IF IsUpper(c)
    THEN LowerLetters[CHOOSE i \in 1..Len(UpperLetters) : UpperLetters[i] = c]
    ELSE c
toUpperCaseChar(c) ==
    IF IsLower(c)
    THEN UpperLetters[CHOOSE i \in 1..Len(LowerLetters) : LowerLetters[i] = c]
    ELSE c
toLowerCase(s) == [i \in 1..Len(s) |-> toLowerCaseChar(s[i])]

\* String.prototype.startsWith
startsWith(s, p) == Len(s) >= Len(p) /\ SubSeq(s, 1, Len(p)) = p

MaxOf(S) == CHOOSE x \in S : \A y \in S : y <= x
MinOf(S) == CHOOSE x \in S : \A y \in S : x <= y

\* s.split(sep).pop(): the text after the last occurrence of sep
splitPop(s, sep) ==
    LET hits == {i \in 1..Len(s) : s[i] = sep}
    IN IF hits = {} THEN s ELSE SubSeq(s, MaxOf(hits) + 1, Len(s))

\* s.split(/[?#]/)[0]: the text before the first '?' or '#'
splitQueryFirst(s) ==
    LET hits == {i \in 1..Len(s) : s[i] \in {"?", "#"}}
    IN IF hits = {} THEN s ELSE SubSeq(s, 1, MinOf(hits) - 1)

HTTP == <<"h", "t", "t", "p">>

(***************************************************************************)
(* change-case 4.x noCase, as used by paramCase and pascalCase             *)
(***************************************************************************)
\* replace(/([a-z0-9])([A-Z])/g, "$1\0$2")
RECURSIVE splitLowerUpper(_, _)
splitLowerUpper(s, i) ==
    IF i > Len(s) THEN <<>>
    ELSE IF i < Len(s) /\ (IsLower(s[i]) \/ IsDigit(s[i])) /\ IsUpper(s[i + 1])
         THEN <<s[i], NUL>> \o splitLowerUpper(s, i + 1)
         ELSE <<s[i]>> \o splitLowerUpper(s, i + 1)

\* replace(/([A-Z])([A-Z][a-z])/g, "$1\0$2")
RECURSIVE splitUpperUpperLower(_, _)
splitUpperUpperLower(s, i) ==
    IF i > Len(s) THEN <<>>
    ELSE IF i + 1 < Len(s) /\ IsUpper(s[i]) /\ IsUpper(s[i + 1]) /\ IsLower(s[i + 2])
         THEN <<s[i], NUL>> \o splitUpperUpperLower(s, i + 1)
         ELSE <<s[i]>> \o splitUpperUpperLower(s, i + 1)

\* replace(/[^A-Z0-9]+/gi, "\0"): every run of non-alphanumerics becomes one NUL
RECURSIVE stripNonAlnum(_, _)
stripNonAlnum(s, i) ==
    IF i > Len(s) THEN <<>>
    ELSE IF IsAlnum(s[i]) THEN <<s[i]>> \o stripNonAlnum(s, i + 1)
         ELSE IF i > 1 /\ ~IsAlnum(s[i - 1]) THEN stripNonAlnum(s, i + 1)
              ELSE <<NUL>> \o stripNonAlnum(s, i + 1)

\* while (result.charAt(start) === "\0") start++; while (charAt(end-1) === "\0") end--
trimNul(s) ==
    LET keep == {i \in 1..Len(s) : s[i] # NUL}
    IN IF keep = {} THEN <<>> ELSE SubSeq(s, MinOf(keep), MaxOf(keep))

\* the words of noCase: result.slice(start, end).split("\0")
RECURSIVE splitNul(_, _, _)
splitNul(s, i, cur) ==
    IF i > Len(s) THEN <<cur>>
    ELSE IF s[i] = NUL THEN <<cur>> \o splitNul(s, i + 1, <<>>)
         ELSE splitNul(s, i + 1, Append(cur, s[i]))

noCaseWords(s) ==
    splitNul(trimNul(stripNonAlnum(splitUpperUpperLower(splitLowerUpper(s, 1), 1), 1)), 1, <<>>)

RECURSIVE joinWith(_, _)
joinWith(words, delim) ==
    IF Len(words) = 0 THEN <<>>
    ELSE IF Len(words) = 1 THEN words[1]
         ELSE words[1] \o delim \o joinWith(Tail(words), delim)

\* paramCase(input): noCase with delimiter "-" and the lower-case transform
paramCase(s) ==
    LET w == noCaseWords(s)
    IN joinWith([i \in 1..Len(w) |-> toLowerCase(w[i])], <<"-">>)

\* pascalCaseTransform(word, index)
pascalCaseTransform(w, index) ==
    IF Len(w) = 0 THEN <<>>
    ELSE IF index > 1 /\ IsDigit(w[1])
         THEN <<"_", w[1]>> \o toLowerCase(Tail(w))
         ELSE <<toUpperCaseChar(w[1])>> \o toLowerCase(Tail(w))

\* pascalCase(input): noCase with delimiter "" and pascalCaseTransform
pascalCase(s) ==
    LET w == noCaseWords(s)
    IN joinWith([i \in 1..Len(w) |-> pascalCaseTransform(w[i], i)], <<>>)

(***************************************************************************)
(* The three places that compute the kebab-case lookup key                 *)
(***************************************************************************)
\* componentName.replace(/([a-z])([A-Z])/g, '$1-$2').toLowerCase()
RECURSIVE dashLowerUpper(_, _)
dashLowerUpper(s, i) ==
    IF i > Len(s) THEN <<>>
    ELSE IF i < Len(s) /\ IsLower(s[i]) /\ IsUpper(s[i + 1])
         THEN <<s[i], "-">> \o dashLowerUpper(s, i + 1)
         ELSE <<s[i]>> \o dashLowerUpper(s, i + 1)

\* component-registry.ts getComponentDependencies: the registry lookup key
getComponentDependenciesKey(componentName) ==
    toLowerCase(dashLowerUpper(componentName, 1))

\* get-component-props.ts findComponentFiles: the file-search key
findComponentFilesKey(componentName) ==
    toLowerCase(dashLowerUpper(componentName, 1))

\* part_000 normalizeComponentName: the raw name taken from the input
urlComponentName(in) ==
    IF startsWith(in, HTTP)
    THEN LET seg == splitQueryFirst(splitPop(in, "/"))
         IN IF seg = <<>> THEN in ELSE seg
    ELSE in

\* normalizeComponentName with the two case conversions swapped
normalizeComponentNameSwapped(in) ==
    LET componentName == urlComponentName(in)
    IN [componentName |-> componentName,
        normalizedName |-> pascalCase(componentName),
        pascalName |-> paramCase(componentName),
        subComponents |-> <<>>,
        dependencies |-> {},
        primitiveImports |-> <<>>]

\* part_000 normalizeComponentName: the ComponentData of a fresh request
normalizeComponentName(in) ==
    LET componentName == urlComponentName(in)
    IN [componentName |-> componentName,
        normalizedName |-> paramCase(componentName),
        pascalName |-> pascalCase(componentName),
        subComponents |-> <<>>,
        dependencies |-> {},
        primitiveImports |-> <<>>]

\* get-component-props.ts extractComponentName; "threw" models the Error
extractComponentName(in) ==
    IF in = <<>> THEN [threw |-> TRUE, name |-> <<>>]
    ELSE IF startsWith(in, HTTP)
         THEN [threw |-> FALSE, name |-> splitQueryFirst(splitPop(in, "/"))]
         ELSE [threw |-> FALSE, name |-> in]

(***************************************************************************)
(* The "looks like a props type" predicate and the name test of each tier  *)
(***************************************************************************)
PropsW == <<"P", "r", "o", "p", "s">>

\* String.prototype.includes
includes(s, sub) ==
    \E i \in 1..(Len(s) - Len(sub) + 1) : SubSeq(s, i, i + Len(sub) - 1) = sub

propsLower == <<"p", "r", "o", "p", "s">>
attributesLower == <<"a", "t", "t", "r", "i", "b", "u", "t", "e", "s">>

\* part_000 isPropsType(name, componentData)
isPropsType(name, cd) ==
    LET lowerName == toLowerCase(name)
    IN \/ includes(name, PropsW)
       \/ lowerName = propsLower
       \/ /\ includes(lowerName, propsLower)
          /\ \/ includes(lowerName, toLowerCase(cd.componentName))
             \/ includes(lowerName, toLowerCase(cd.normalizedName))
             \/ includes(lowerName, toLowerCase(cd.pascalName))

\* get-component-props.ts isPropsType(name, componentName)
isPropsTypeGcp(name, componentName) ==
    LET normalizedName == toLowerCase(name)
    IN \/ includes(name, PropsW)
       \/ /\ includes(normalizedName, toLowerCase(componentName))
          /\ \/ includes(normalizedName, propsLower)
             \/ includes(normalizedName, attributesLower)
       \/ name = PropsW

\* the name group of interfaceRegex / typeRegex: [A-Za-z0-9_]*Props[A-Za-z0-9_]*
\* must cover the whole declared name
matchesPropsNameRegex(name) ==
    /\ \A i \in 1..Len(name) : IsAlnum(name[i]) \/ name[i] = "_"
    /\ includes(name, PropsW)

\* part_000 extractPropsFromFile, ts-morph scan of interfaces and type aliases
tsMorphAccepts(name, cd) == isPropsType(name, cd)

\* part_000 extractPropsFromFile, regex fallback
regexAccepts(name, cd) == matchesPropsNameRegex(name) /\ isPropsType(name, cd)

\* get-component-props.ts extractPropsWithTsMorph
tsMorphAcceptsGcp(name, componentName) == isPropsTypeGcp(name, componentName)

\* get-component-props.ts extractPropsWithBabel
babelAcceptsGcp(name, componentName) == isPropsTypeGcp(name, componentName)

\* get-component-props.ts extractPropsWithRegex
regexAcceptsGcp(name, componentName) ==
    matchesPropsNameRegex(name) /\ isPropsTypeGcp(name, componentName)

(***************************************************************************)
(* Prop candidates.  A declaration text is a record: the comment line in   *)
(* front of it, the export keyword, the declaration keyword, the declared  *)
(* name and the rest of the text.  A candidate pairs a text with its        *)
(* sub-component tag; <<>> is the null tag.                                 *)
(***************************************************************************)
MainW == <<"M", "a", "i", "n">>
NoTag == <<>>

DeclText(lead, exported, kw, name, body) ==
    [lead |-> lead, exported |-> exported, kw |-> kw, name |-> name, body |-> body]

\* part_000 extractSubComponentName: the member of the trailing property
\* access of a type reference, null when the reference has none
extractSubComponentName(ref) == ref.member

\* part_000 extractPropsFromFile: the alias synthesised around a
\* ComponentProps / ComponentPropsWithRef / ComponentPropsWithoutRef reference
componentPropsCandidate(pascalName, ref) ==
    LET subComponent == extractSubComponentName(ref)
    IN [text |-> DeclText("// From React type reference", FALSE, "type",
                          pascalName \o subComponent \o PropsW, ref),
        subComponent |-> subComponent]

\* part_000 extractPropsFromFile: the alias synthesised around an
\* HTMLAttributes / HTMLProps reference
htmlAttributesCandidate(pascalName, ref) ==
    [text |-> DeclText("// From HTML attributes", FALSE, "type",
                       pascalName \o PropsW, ref),
     subComponent |-> NoTag]

\* an interface or type alias found in the file and accepted by isPropsType
declaredCandidate(exported, kw, name, body) ==
    [text |-> DeclText("", exported, kw, name, body), subComponent |-> NoTag]

\* R.uniqBy(R.identity, list); also the key order of a JavaScript object
RECURSIVE uniqAcc(_, _, _)
uniqAcc(s, i, acc) ==
    IF i > Len(s) THEN acc
    ELSE uniqAcc(s, i + 1,
                 IF \E j \in 1..Len(acc) : acc[j] = s[i] THEN acc ELSE Append(acc, s[i]))
uniq(s) == uniqAcc(s, 1, <<>>)

RECURSIVE concatAll(_)
concatAll(ss) == IF Len(ss) = 0 THEN <<>> ELSE ss[1] \o concatAll(Tail(ss))

\* prop.replace(new RegExp(`(type|interface)\\s+${pascalName}Props`),
\*              `$1 ${pascalName}${subComponent}Props`)
renameForSubComponent(text, pascalName, subComponent) ==
    LET pat == pascalName \o PropsW
    IN IF text.kw \in {"type", "interface"} /\ startsWith(text.name, pat)
       THEN [text EXCEPT !.name = pascalName \o subComponent \o PropsW
                                    \o SubSeq(text.name, Len(pat) + 1, Len(text.name))]
       ELSE text

\* prop.subComponent || 'Main'
groupKey(prop) == IF prop.subComponent = NoTag THEN MainW ELSE prop.subComponent

\* part_000 deduplicateAndNameProps(foundProps, componentData): the returned
\* texts (each with the group it was emitted from) and the registry afterwards
deduplicateAndNameProps(foundProps, cd) ==
    IF Len(foundProps) <= 1
    THEN [result |-> [i \in 1..Len(foundProps) |->
                        [text |-> foundProps[i].text, group |-> groupKey(foundProps[i])]],
          subComponents |-> cd.subComponents]
    ELSE
      LET keys == uniq([i \in 1..Len(foundProps) |-> groupKey(foundProps[i])])
          newTags == SelectSeq(keys, LAMBDA k :
                        k # MainW /\ ~\E j \in 1..Len(cd.subComponents) : cd.subComponents[j] = k)
          members(k) == SelectSeq(foundProps, LAMBDA p : groupKey(p) = k)
          emit(k) ==
              LET ps == members(k)
              IN [i \in 1..Len(ps) |->
                    [text |-> IF k = MainW \/ Len(keys) = 1
                              THEN ps[i].text
                              ELSE renameForSubComponent(ps[i].text, cd.pascalName, k),
                     group |-> k]]
      IN [result |-> concatAll([n \in 1..Len(keys) |-> emit(keys[n])]),
          subComponents |-> cd.subComponents \o newTags]

(***************************************************************************)
(* generateTypeExports.  The text is a sequence of pieces; "," and the     *)
(* line break are single characters, a type name is one piece.             *)
(***************************************************************************)
Piece(k, v) == [k |-> k, v |-> v]

\* an off-by-one slice that also cuts the last listed name
sliceOffLastThree(pieces) ==
    IF Len(pieces) <= 3 THEN <<>> ELSE SubSeq(pieces, 1, Len(pieces) - 3)

\* exports.slice(0, -2)
sliceOffLastTwo(pieces) ==
    IF Len(pieces) <= 2 THEN <<>> ELSE SubSeq(pieces, 1, Len(pieces) - 2)

\* part_000 generateTypeExports(componentData)
generateTypeExports(cd) ==
    IF Len(cd.subComponents) = 0 THEN <<>>
    ELSE
      LET line(name) == <<Piece("indent", <<>>), Piece("name", name),
                          Piece(",", <<>>), Piece("nl", <<>>)>>
          head == <<Piece("header", <<>>), Piece("nl", <<>>)>>
          main == line(cd.pascalName \o PropsW)
          subs == concatAll([i \in 1..Len(cd.subComponents) |->
                                line(cd.pascalName \o cd.subComponents[i] \o PropsW)])
      IN sliceOffLastTwo(head \o main \o subs) \o <<Piece("nl", <<>>), Piece("close", <<>>)>>

(***************************************************************************)
(* Extraction tiers.  A source file is the sequence of its declarations    *)
(* and type references, together with the operations that fail on it:      *)
(* "tsMorph" (the ts-morph project cannot load or parse it), "babel" (the   *)
(* Babel parser rejects it), "readFile" (it cannot be read as text).        *)
(***************************************************************************)
FileDecl(kind, exported, name, body) ==
    [kind |-> kind, exported |-> exported, name |-> name, body |-> body]

SourceFile(decls, throws) == [decls |-> decls, throws |-> throws]

\* a declaration inside a comment is text to the pattern tier and nothing
\* to the parsers; the pattern's match[0] starts at its keyword
textKind(d) == IF d.kind = "commentedType" THEN "type" ELSE d.kind

\* getText() of a declaration node / match[0] of a declaration pattern
declText(d) == DeclText("", d.exported, textKind(d), d.name, d.body)

\* code.slice(start, end) of the declaration inside an export statement
innerText(d) == DeclText("", FALSE, d.kind, d.name, d.body)

mapTexts(ds) == [i \in 1..Len(ds) |-> declText(ds[i])]

IsDeclared(d) == d.kind \in {"interface", "type"}

\* text.includes('ComponentProps<') || ... || text.includes('HTMLProps<')
IsPropsUtilityRef(d) ==
    /\ d.kind = "typeref"
    /\ d.body.util \in {"ComponentProps", "ComponentPropsWithRef",
                        "ComponentPropsWithoutRef", "HTMLAttributes", "HTMLProps"}

\* /ComponentProps<[^>]+>/ matches inside any utility whose name ends so
MatchesComponentPropsRegex(d) ==
    d.kind \in {"typeref", "commentedType"} /\ d.body.util = "ComponentProps"

TierOutcome(tier, caught, props) == [tier |-> tier, caught |-> caught, props |-> props]

\* get-component-props.ts: `type ${componentName}Props = ${text};`
typeReferenceTextGcp(componentName, d) ==
    DeclText("// From React type reference", FALSE, "type", componentName \o PropsW, d.body)

\* get-component-props.ts extractPropsWithTsMorph(file, componentName)
extractPropsWithTsMorph(file, componentName) ==
    IF "tsMorph" \in file.throws
    THEN TierOutcome("tsMorph", TRUE, <<>>)
    ELSE
      LET ok(d) == isPropsTypeGcp(d.name, componentName)
          interfaces == SelectSeq(file.decls, LAMBDA d : d.kind = "interface" /\ ok(d))
          aliases == SelectSeq(file.decls, LAMBDA d : d.kind = "type" /\ ok(d))
          exported == SelectSeq(file.decls, LAMBDA d : IsDeclared(d) /\ d.exported /\ ok(d))
          refs == SelectSeq(file.decls, IsPropsUtilityRef)
      IN TierOutcome("tsMorph", FALSE,
             mapTexts(interfaces) \o mapTexts(aliases) \o mapTexts(exported)
               \o [i \in 1..Len(refs) |-> typeReferenceTextGcp(componentName, refs[i])])

\* get-component-props.ts extractPropsWithBabel(file, componentName): the
\* export statement is visited before the declaration it wraps
extractPropsWithBabel(file, componentName) ==
    IF file.throws \cap {"readFile", "babel"} # {}
    THEN TierOutcome("babel", TRUE, <<>>)
    ELSE
      LET visit(d) ==
              IF IsDeclared(d) /\ isPropsTypeGcp(d.name, componentName)
              THEN (IF d.exported THEN <<declText(d)>> ELSE <<>>) \o <<innerText(d)>>
              ELSE <<>>
      IN TierOutcome("babel", FALSE,
             concatAll([i \in 1..Len(file.decls) |-> visit(file.decls[i])]))

\* get-component-props.ts extractPropsWithRegex(file, componentName)
extractPropsWithRegex(file, componentName) ==
    IF "readFile" \in file.throws
    THEN TierOutcome("regex", TRUE, <<>>)
    ELSE
      LET ok(d) == regexAcceptsGcp(d.name, componentName)
          interfaces == SelectSeq(file.decls, LAMBDA d : d.kind = "interface" /\ ok(d))
          aliases == SelectSeq(file.decls, LAMBDA d : textKind(d) = "type" /\ ok(d))
          refs == SelectSeq(file.decls, MatchesComponentPropsRegex)
      IN TierOutcome("regex", FALSE,
             mapTexts(interfaces) \o mapTexts(aliases)
               \o [i \in 1..Len(refs) |-> typeReferenceTextGcp(componentName, refs[i])])

\* get-component-props.ts extractPropsFromFile(file, componentName): the
\* tiers that ran, in order, and the returned list
extractPropsFromFileGcp(file, componentName) ==
    LET t1 == extractPropsWithTsMorph(file, componentName)
        t2 == extractPropsWithBabel(file, componentName)
        t3 == extractPropsWithRegex(file, componentName)
    IN IF Len(t1.props) # 0 THEN [log |-> <<t1>>, props |-> t1.props]
       ELSE IF Len(t2.props) # 0 THEN [log |-> <<t1, t2>>, props |-> t2.props]
       ELSE [log |-> <<t1, t2, t3>>, props |-> t3.props]

\* String.prototype.replace with a global pattern that has no metacharacters
RECURSIVE replaceAll(_, _, _)
replaceAll(s, pat, rep) ==
    IF Len(pat) = 0 \/ Len(s) < Len(pat) THEN s
    ELSE IF SubSeq(s, 1, Len(pat)) = pat
         THEN rep \o replaceAll(SubSeq(s, Len(pat) + 1, Len(s)), pat, rep)
         ELSE <<s[1]>> \o replaceAll(Tail(s), pat, rep)

\* part_000: text.replace(new RegExp(`${componentName}Props`, 'g'), `${pascalName}Props`)
fixedText(text, cd) ==
    [text EXCEPT !.name = replaceAll(text.name, cd.componentName \o PropsW,
                                     cd.pascalName \o PropsW)]

\* part_000 extractPropsFromFile, the candidates of the ts-morph scans
tsMorphCandidates(file, cd) ==
    LET ok(d) == tsMorphAccepts(d.name, cd)
        cand(d) == [text |-> fixedText(declText(d), cd), subComponent |-> NoTag]
        interfaces == SelectSeq(file.decls, LAMBDA d : d.kind = "interface" /\ ok(d))
        aliases == SelectSeq(file.decls, LAMBDA d : d.kind = "type" /\ ok(d))
        exported == SelectSeq(file.decls, LAMBDA d : IsDeclared(d) /\ d.exported /\ ok(d))
        cprefs == SelectSeq(file.decls, LAMBDA d : IsPropsUtilityRef(d) /\
                     d.body.util \in {"ComponentProps", "ComponentPropsWithRef",
                                      "ComponentPropsWithoutRef"})
        htmlrefs == SelectSeq(file.decls, LAMBDA d : IsPropsUtilityRef(d) /\
                     d.body.util \in {"HTMLAttributes", "HTMLProps"})
    IN [i \in 1..Len(interfaces) |-> cand(interfaces[i])]
         \o [i \in 1..Len(aliases) |-> cand(aliases[i])]
         \o [i \in 1..Len(exported) |-> cand(exported[i])]
         \o [i \in 1..Len(cprefs) |-> componentPropsCandidate(cd.pascalName, cprefs[i].body)]
         \o [i \in 1..Len(htmlrefs) |-> htmlAttributesCandidate(cd.pascalName, htmlrefs[i].body)]

\* part_000 extractPropsFromFile, the candidates of the regex fallback
regexCandidates(file, cd) ==
    LET ok(d) == regexAccepts(d.name, cd)
        interfaces == SelectSeq(file.decls, LAMBDA d : d.kind = "interface" /\ ok(d))
        aliases == SelectSeq(file.decls, LAMBDA d : textKind(d) = "type" /\ ok(d))
        refs == SelectSeq(file.decls, MatchesComponentPropsRegex)
    IN [i \in 1..Len(interfaces) |-> [text |-> declText(interfaces[i]), subComponent |-> NoTag]]
         \o [i \in 1..Len(aliases) |-> [text |-> declText(aliases[i]), subComponent |-> NoTag]]
         \o [i \in 1..Len(refs) |-> componentPropsCandidate(cd.pascalName, refs[i].body)]

textsOf(cands) == [i \in 1..Len(cands) |-> cands[i].text]

\* part_000 extractPropsFromFile(file, componentData): the tiers that ran,
\* the returned list and the registry afterwards.  One try block spans both
\* tiers and deduplicateAndNameProps; its catch returns [].
extractPropsFromFile(file, cd) ==
    IF "tsMorph" \in file.throws
    THEN [log |-> <<TierOutcome("tsMorph", TRUE, <<>>)>>, props |-> <<>>,
          subComponents |-> cd.subComponents]
    ELSE
      LET found1 == tsMorphCandidates(file, cd)
          t1 == TierOutcome("tsMorph", FALSE, textsOf(found1))
      IN IF Len(found1) # 0
         THEN LET r == deduplicateAndNameProps(found1, cd)
              IN [log |-> <<t1>>, props |-> textsOf(r.result),
                  subComponents |-> r.subComponents]
         ELSE IF "readFile" \in file.throws
         THEN [log |-> <<t1, TierOutcome("regex", TRUE, <<>>)>>, props |-> <<>>,
               subComponents |-> cd.subComponents]
         ELSE LET found2 == regexCandidates(file, cd)
                  r == deduplicateAndNameProps(found2, cd)
              IN [log |-> <<t1, TierOutcome("regex", FALSE, textsOf(found2))>>,
                  props |-> textsOf(r.result),
                  subComponents |-> r.subComponents]

(***************************************************************************)
(* Dependency profile.  A scanned text is the sequence of its statements:  *)
(* "importNs" (import * as ns from "from"), "importNamed" (import { .. }   *)
(* from "from"), "mention" (the text names the package "from" outside an    *)
(* import), "usage" (ns.member).  A Map is the sequence of its entries in   *)
(* insertion order.                                                         *)
(***************************************************************************)
Stmt(kind, ns, from, member) == [kind |-> kind, ns |-> ns, from |-> from, member |-> member]

PrimitiveW == <<"P", "r", "i", "m", "i", "t", "i", "v", "e">>
RadixScope == <<"@", "r", "a", "d", "i", "x", "-", "u", "i", "/", "r", "e", "a", "c", "t", "-">>

\* Map.prototype.has
mapHas(m, k) == \E i \in 1..Len(m) : m[i].k = k

\* a Map.set that forgets every other entry
mapSetOnly(m, k, v) == <<[k |-> k, v |-> v]>>

\* Map.prototype.set
mapSet(m, k, v) ==
    IF mapHas(m, k)
    THEN [i \in 1..Len(m) |-> IF m[i].k = k THEN [k |-> k, v |-> v] ELSE m[i]]
    ELSE Append(m, [k |-> k, v |-> v])

mapKeys(m) == {m[i].k : i \in 1..Len(m)}

\* Map.prototype.get for a key the map has
mapGet(m, k) == LET i == CHOOSE i \in 1..Len(m) : m[i].k = k IN m[i].v

\* part_000 detectDependenciesFromText: radixPatterns (the package is
\* '@radix-ui/react-' followed by base)
radixPatterns ==
    << [base |-> <<"a", "c", "c", "o", "r", "d", "i", "o", "n">>,
        primitive |-> <<"A", "c", "c", "o", "r", "d", "i", "o", "n", "P", "r", "i", "m", "i", "t", "i", "v", "e">>],
       [base |-> <<"a", "l", "e", "r", "t", "-", "d", "i", "a", "l", "o", "g">>,
        primitive |-> <<"A", "l", "e", "r", "t", "D", "i", "a", "l", "o", "g", "P", "r", "i", "m", "i", "t", "i", "v", "e">>],
       [base |-> <<"a", "s", "p", "e", "c", "t", "-", "r", "a", "t", "i", "o">>,
        primitive |-> <<"A", "s", "p", "e", "c", "t", "R", "a", "t", "i", "o", "P", "r", "i", "m", "i", "t", "i", "v", "e">>],
       [base |-> <<"a", "v", "a", "t", "a", "r">>,
        primitive |-> <<"A", "v", "a", "t", "a", "r", "P", "r", "i", "m", "i", "t", "i", "v", "e">>],
       [base |-> <<"c", "h", "e", "c", "k", "b", "o", "x">>,
        primitive |-> <<"C", "h", "e", "c", "k", "b", "o", "x", "P", "r", "i", "m", "i", "t", "i", "v", "e">>],
       [base |-> <<"c", "o", "l", "l", "a", "p", "s", "i", "b", "l", "e">>,
        primitive |-> <<"C", "o", "l", "l", "a", "p", "s", "i", "b", "l", "e", "P", "r", "i", "m", "i", "t", "i", "v", "e">>],
       [base |-> <<"c", "o", "n", "t", "e", "x", "t", "-", "m", "e", "n", "u">>,
        primitive |-> <<"C", "o", "n", "t", "e", "x", "t", "M", "e", "n", "u", "P", "r", "i", "m", "i", "t", "i", "v", "e">>],
       [base |-> <<"d", "i", "a", "l", "o", "g">>,
        primitive |-> <<"D", "i", "a", "l", "o", "g", "P", "r", "i", "m", "i", "t", "i", "v", "e">>],
       [base |-> <<"d", "r", "o", "p", "d", "o", "w", "n", "-", "m", "e", "n", "u">>,
        primitive |-> <<"D", "r", "o", "p", "d", "o", "w", "n", "M", "e", "n", "u", "P", "r", "i", "m", "i", "t", "i", "v", "e">>],
       [base |-> <<"h", "o", "v", "e", "r", "-", "c", "a", "r", "d">>,
        primitive |-> <<"H", "o", "v", "e", "r", "C", "a", "r", "d", "P", "r", "i", "m", "i", "t", "i", "v", "e">>],
       [base |-> <<"l", "a", "b", "e", "l">>,
        primitive |-> <<"L", "a", "b", "e", "l", "P", "r", "i", "m", "i", "t", "i", "v", "e">>],
       [base |-> <<"m", "e", "n", "u", "b", "a", "r">>,
        primitive |-> <<"M", "e", "n", "u", "b", "a", "r", "P", "r", "i", "m", "i", "t", "i", "v", "e">>],
       [base |-> <<"n", "a", "v", "i", "g", "a", "t", "i", "o", "n", "-", "m", "e", "n", "u">>,
        primitive |-> <<"N", "a", "v", "i", "g", "a", "t", "i", "o", "n", "M", "e", "n", "u", "P", "r", "i", "m", "i", "t", "i", "v", "e">>],
       [base |-> <<"p", "o", "p", "o", "v", "e", "r">>,
        primitive |-> <<"P", "o", "p", "o", "v", "e", "r", "P", "r", "i", "m", "i", "t", "i", "v", "e">>],
       [base |-> <<"p", "r", "o", "g", "r", "e", "s", "s">>,
        primitive |-> <<"P", "r", "o", "g", "r", "e", "s", "s", "P", "r", "i", "m", "i", "t", "i", "v", "e">>],
       [base |-> <<"r", "a", "d", "i", "o", "-", "g", "r", "o", "u", "p">>,
        primitive |-> <<"R", "a", "d", "i", "o", "G", "r", "o", "u", "p", "P", "r", "i", "m", "i", "t", "i", "v", "e">>],
       [base |-> <<"s", "c", "r", "o", "l", "l", "-", "a", "r", "e", "a">>,
        primitive |-> <<"S", "c", "r", "o", "l", "l", "A", "r", "e", "a", "P", "r", "i", "m", "i", "t", "i", "v", "e">>],
       [base |-> <<"s", "e", "l", "e", "c", "t">>,
        primitive |-> <<"S", "e", "l", "e", "c", "t", "P", "r", "i", "m", "i", "t", "i", "v", "e">>],
       [base |-> <<"s", "e", "p", "a", "r", "a", "t", "o", "r">>,
        primitive |-> <<"S", "e", "p", "a", "r", "a", "t", "o", "r", "P", "r", "i", "m", "i", "t", "i", "v", "e">>],
       [base |-> <<"s", "l", "i", "d", "e", "r">>,
        primitive |-> <<"S", "l", "i", "d", "e", "r", "P", "r", "i", "m", "i", "t", "i", "v", "e">>],
       [base |-> <<"s", "l", "o", "t">>,
        primitive |-> <<"S", "l", "o", "t">>],
       [base |-> <<"s", "w", "i", "t", "c", "h">>,
        primitive |-> <<"S", "w", "i", "t", "c", "h", "P", "r", "i", "m", "i", "t", "i", "v", "e">>],
       [base |-> <<"t", "a", "b", "s">>,
        primitive |-> <<"T", "a", "b", "s", "P", "r", "i", "m", "i", "t", "i", "v", "e">>],
       [base |-> <<"t", "o", "a", "s", "t">>,
        primitive |-> <<"T", "o", "a", "s", "t", "P", "r", "i", "m", "i", "t", "i", "v", "e">>],
       [base |-> <<"t", "o", "g", "g", "l", "e">>,
        primitive |-> <<"T", "o", "g", "g", "l", "e", "P", "r", "i", "m", "i", "t", "i", "v", "e">>],
       [base |-> <<"t", "o", "g", "g", "l", "e", "-", "g", "r", "o", "u", "p">>,
        primitive |-> <<"T", "o", "g", "g", "l", "e", "G", "r", "o", "u", "p", "P", "r", "i", "m", "i", "t", "i", "v", "e">>],
       [base |-> <<"t", "o", "o", "l", "t", "i", "p">>,
        primitive |-> <<"T", "o", "o", "l", "t", "i", "p", "P", "r", "i", "m", "i", "t", "i", "v", "e">>] >>

\* part_000 detectDependenciesFromText: otherPatterns
otherPatterns ==
    << <<"d", "a", "t", "e", "-", "f", "n", "s">>,
       <<"r", "e", "a", "c", "t", "-", "d", "a", "y", "-", "p", "i", "c", "k", "e", "r">>,
       <<"c", "m", "d", "k">>,
       <<"n", "e", "x", "t", "-", "t", "h", "e", "m", "e", "s">>,
       <<"s", "o", "n", "n", "e", "r">>,
       <<"t", "a", "i", "l", "w", "i", "n", "d", "-", "m", "e", "r", "g", "e">>,
       <<"c", "l", "a", "s", "s", "-", "v", "a", "r", "i", "a", "n", "c", "e", "-", "a", "u", "t", "h", "o", "r", "i", "t", "y">> >>

radixDependency(entry) == RadixScope \o entry.base

\* the package names the text holds, lower-cased for the /gi patterns
mentionsLower(text) ==
    LET named == SelectSeq(text, LAMBDA st :
                    st.kind \in {"importNs", "importNamed", "mention"})
    IN [i \in 1..Len(named) |-> toLowerCase(named[i].from)]

radixPatternsLower ==
    [i \in 1..Len(radixPatterns) |-> toLowerCase(radixDependency(radixPatterns[i]))]

otherPatternsLower ==
    [i \in 1..Len(otherPatterns) |-> toLowerCase(otherPatterns[i])]

\* regex.test(text) for a case-insensitive package-name pattern
textMentions(lowered, patternLower) ==
    \E i \in 1..Len(lowered) : includes(lowered[i], patternLower)

\* the module specifiers es-module-lexer reports for the import lines
importSpecifiers(text) ==
    LET imps == SelectSeq(text, LAMBDA st : st.kind \in {"importNs", "importNamed"})
    IN [i \in 1..Len(imps) |-> imps[i].from]

\* part.charAt(0).toUpperCase() + part.slice(1) of every '-' separated part, joined
RECURSIVE capitalizeParts(_, _, _)
capitalizeParts(s, i, atStart) ==
    IF i > Len(s) THEN <<>>
    ELSE IF s[i] = "-" THEN capitalizeParts(s, i + 1, TRUE)
    ELSE <<IF atStart THEN toUpperCaseChar(s[i]) ELSE s[i]>>
           \o capitalizeParts(s, i + 1, FALSE)

\* part_000 extractPrimitiveName(packageName); <<>> is null
extractPrimitiveName(packageName) ==
    LET n == Len(RadixScope)
        starts == {i \in 1..(Len(packageName) - n) :
                     /\ toLowerCase(SubSeq(packageName, i, i + n - 1)) = RadixScope
                     /\ \A j \in (i + n)..Len(packageName) :
                           IsLower(packageName[j]) \/ IsUpper(packageName[j])
                             \/ packageName[j] = "-"}
    IN IF starts = {} THEN <<>>
       ELSE LET i == MinOf(starts)
            IN capitalizeParts(SubSeq(packageName, i + n, Len(packageName)), 1, TRUE)
                 \o PrimitiveW

\* folds of detectDependenciesFromText over its pattern tables and imports
RECURSIVE applyRadixPatterns(_, _, _)
applyRadixPatterns(cd, text, i) ==
    IF i > Len(radixPatterns) THEN cd
    ELSE LET e == radixPatterns[i]
         IN applyRadixPatterns(
              IF textMentions(text, radixPatternsLower[i])
              THEN [cd EXCEPT !.dependencies = @ \cup {radixDependency(e)},
                              !.primitiveImports = mapSet(@, e.primitive, radixDependency(e))]
              ELSE cd, text, i + 1)

RECURSIVE applyOtherPatterns(_, _, _)
applyOtherPatterns(cd, text, i) ==
    IF i > Len(otherPatterns) THEN cd
    ELSE applyOtherPatterns(
           IF textMentions(text, otherPatternsLower[i])
           THEN [cd EXCEPT !.dependencies = @ \cup {otherPatterns[i]}]
           ELSE cd, text, i + 1)

RECURSIVE applyImports(_, _, _)
applyImports(cd, imports, i) ==
    IF i > Len(imports) THEN cd
    ELSE LET n == imports[i]
             scoped == startsWith(n, <<"@">>) /\ ~startsWith(n, <<"@", "/">>)
             primitiveName == extractPrimitiveName(n)
             withDep == [cd EXCEPT !.dependencies = @ \cup {n}]
         IN applyImports(
              IF ~scoped THEN cd
              ELSE IF primitiveName = <<>> THEN withDep
              ELSE [withDep EXCEPT !.primitiveImports = mapSet(@, primitiveName, n)],
              imports, i + 1)

\* part_000 detectDependenciesFromText(text, componentData).  parseImports
\* throws into the surrounding catch while the lexer is not initialised.
detectDependenciesFromText(text, cd, lexerReady) ==
    LET lowered == mentionsLower(text)
        c1 == applyRadixPatterns(cd, lowered, 1)
        c2 == applyOtherPatterns(c1, lowered, 1)
    IN IF lexerReady /\ Len(importSpecifiers(text)) > 0
       THEN applyImports(c2, importSpecifiers(text), 1)
       ELSE c2

\* match of /^([A-Za-z0-9]+)Primitive$/ style names
endsWithPrimitive(name) ==
    /\ Len(name) > Len(PrimitiveW)
    /\ SubSeq(name, Len(name) - Len(PrimitiveW) + 1, Len(name)) = PrimitiveW

\* part_000 guessRadixPackageFromPrimitive(primitiveName); <<>> is null
guessRadixPackageFromPrimitive(primitiveName) ==
    LET base == SubSeq(primitiveName, 1, Len(primitiveName) - Len(PrimitiveW))
    IN IF endsWithPrimitive(primitiveName)
          /\ \A j \in 1..Len(base) : IsLower(base[j]) \/ IsUpper(base[j])
       THEN RadixScope \o toLowerCase(base)
       ELSE <<>>

pushUnique(list, x) ==
    IF \E i \in 1..Len(list) : list[i] = x THEN list ELSE Append(list, x)

RECURSIVE applyPrimitiveImports(_, _, _)
applyPrimitiveImports(cd, stmts, i) ==
    IF i > Len(stmts) THEN cd
    ELSE LET st == stmts[i]
             set == [cd EXCEPT !.primitiveImports = mapSet(@, st.ns, st.from)]
         IN applyPrimitiveImports(
              IF startsWith(st.from, <<"@">>) \/ ~startsWith(st.from, <<".">>)
              THEN [set EXCEPT !.dependencies = @ \cup {st.from}]
              ELSE set, stmts, i + 1)

RECURSIVE applyOwnUsages(_, _, _)
applyOwnUsages(cd, stmts, i) ==
    IF i > Len(stmts) THEN cd
    ELSE applyOwnUsages([cd EXCEPT !.subComponents = pushUnique(@, stmts[i].member)],
                        stmts, i + 1)

RECURSIVE applyAnyUsages(_, _, _)
applyAnyUsages(cd, stmts, i) ==
    IF i > Len(stmts) THEN cd
    ELSE LET st == stmts[i]
             likelyPackage == guessRadixPackageFromPrimitive(st.ns)
             c1 == IF ~mapHas(cd.primitiveImports, st.ns) /\ likelyPackage # <<>>
                   THEN [cd EXCEPT !.primitiveImports = mapSet(@, st.ns, likelyPackage),
                                   !.dependencies = @ \cup {likelyPackage}]
                   ELSE cd
         IN applyAnyUsages([c1 EXCEPT !.subComponents = pushUnique(@, st.member)],
                           stmts, i + 1)

\* part_000 extractPrimitiveImportsFromContent(content, componentData)
extractPrimitiveImportsFromContent(content, cd) ==
    LET nsImports == SelectSeq(content, LAMBDA st :
                        st.kind = "importNs" /\ endsWithPrimitive(st.ns))
        usages == SelectSeq(content, LAMBDA st :
                        st.kind = "usage" /\ endsWithPrimitive(st.ns))
        own == SelectSeq(usages, LAMBDA st : st.ns = cd.pascalName \o PrimitiveW)
    IN applyAnyUsages(applyOwnUsages(applyPrimitiveImports(cd, nsImports, 1), own, 1),
                      usages, 1)

typicalEntry(base) ==
    LET i == CHOOSE i \in 1..Len(radixPatterns) : radixPatterns[i].base = base
    IN radixPatterns[i]

\* part_000 addTypicalDependencies(componentData)
addTypicalDependencies(cd) ==
    LET lowerName == toLowerCase(cd.normalizedName)
        dialogW == <<"d", "i", "a", "l", "o", "g">>
        accordionW == <<"a", "c", "c", "o", "r", "d", "i", "o", "n">>
        base == IF lowerName = <<"d", "r", "a", "w", "e", "r">> THEN dialogW ELSE lowerName
        typical == {accordionW,
                    <<"a", "l", "e", "r", "t", "-", "d", "i", "a", "l", "o", "g">>,
                    <<"c", "h", "e", "c", "k", "b", "o", "x">>,
                    dialogW,
                    <<"d", "r", "o", "p", "d", "o", "w", "n", "-", "m", "e", "n", "u">>,
                    <<"t", "a", "b", "s">>}
        c1 == IF base \in typical
              THEN LET e == typicalEntry(base)
                   IN [cd EXCEPT !.dependencies = @ \cup {radixDependency(e)},
                                 !.primitiveImports = mapSet(@, e.primitive, radixDependency(e))]
              ELSE cd
    IN IF lowerName = accordionW /\ Len(cd.subComponents) = 0
       THEN [c1 EXCEPT !.subComponents =
                <<<<"R", "o", "o", "t">>, <<"I", "t", "e", "m">>,
                  <<"T", "r", "i", "g", "g", "e", "r">>,
                  <<"C", "o", "n", "t", "e", "n", "t">>>>]
       ELSE IF lowerName = dialogW /\ Len(cd.subComponents) = 0
       THEN [c1 EXCEPT !.subComponents =
                <<<<"R", "o", "o", "t">>, <<"T", "r", "i", "g", "g", "e", "r">>,
                  <<"C", "o", "n", "t", "e", "n", "t">>, <<"H", "e", "a", "d", "e", "r">>,
                  <<"F", "o", "o", "t", "e", "r">>, <<"T", "i", "t", "l", "e">>,
                  <<"D", "e", "s", "c", "r", "i", "p", "t", "i", "o", "n">>>>]
       ELSE c1

(***************************************************************************)
(* Synthetic defaults and document assembly                                *)
(***************************************************************************)
\* part_000 createSingleComponentProps: the heuristic that selects
\* specificProps from the lower-cased component name and the sub-component
templateKind(cd, subComponent) ==
    LET lowerName == toLowerCase(cd.componentName)
        has(w) == includes(lowerName, w)
        root == subComponent = <<>> \/ subComponent = <<"R", "o", "o", "t">>
    IN IF has(<<"b", "u", "t", "t", "o", "n">>) THEN "button"
       ELSE IF has(<<"a", "c", "c", "o", "r", "d", "i", "o", "n">>)
            THEN (IF root THEN "accordion.Root"
                  ELSE IF subComponent = <<"I", "t", "e", "m">> THEN "accordion.Item"
                  ELSE IF subComponent = <<"T", "r", "i", "g", "g", "e", "r">> THEN "accordion.Trigger"
                  ELSE IF subComponent = <<"C", "o", "n", "t", "e", "n", "t">> THEN "accordion.Content"
                  ELSE "minimal")
       ELSE IF has(<<"d", "i", "a", "l", "o", "g">>) \/ has(<<"m", "o", "d", "a", "l">>) \/ has(<<"d", "r", "a", "w", "e", "r">>)
            THEN (IF root THEN "dialog.Root"
                  ELSE IF subComponent = <<"C", "o", "n", "t", "e", "n", "t">> THEN "dialog.Content"
                  ELSE "minimal")
       ELSE IF has(<<"f", "o", "r", "m">>) THEN "form"
       ELSE IF has(<<"s", "e", "l", "e", "c", "t">>) \/ has(<<"d", "r", "o", "p", "d", "o", "w", "n">>) THEN "select"
       ELSE IF has(<<"i", "n", "p", "u", "t">>) THEN "input"
       ELSE IF has(<<"c", "a", "r", "d">>) THEN "card"
       ELSE IF has(<<"n", "o", "t", "-", "f", "o", "u", "n", "d">>) THEN "not-found"
       ELSE "minimal"

\* the properties every synthetic interface declares
minimalProperties == {"children", "className", "[key: string]"}

\* the properties of specificProps
specificProperties(kind) ==
    CASE kind = "button" -> {"variant", "size", "disabled", "onClick"}
      [] kind = "accordion.Root" -> {"type", "defaultValue", "onValueChange", "collapsible"}
      [] kind = "accordion.Item" -> {"value", "disabled"}
      [] kind = "accordion.Trigger" -> {"disabled", "asChild"}
      [] kind = "accordion.Content" -> {"forceMount"}
      [] kind = "dialog.Root" -> {"open", "onOpenChange"}
      [] kind = "dialog.Content" -> {"forceMount", "side"}
      [] kind = "form" -> {"onSubmit", "defaultValues"}
      [] kind = "select" -> {"value", "onValueChange", "placeholder"}
      [] kind = "input" -> {"type", "value", "onChange", "placeholder"}
      [] kind = "card" -> {"bordered", "variant"}
      [] kind = "not-found" -> {"title", "description", "homeUrl", "buttonText", "onAction"}
      [] OTHER -> {}

\* part_000 createSingleComponentProps(componentData, subComponent)
createSingleComponentProps(cd, subComponent) ==
    DeclText(IF subComponent = NoTag THEN "// Default props interface"
             ELSE "// Props for sub-component",
             TRUE, "interface", cd.pascalName \o subComponent \o PropsW,
             [util |-> "default", ns |-> templateKind(cd, subComponent), member |-> NoTag])

\* createDefaultPropsInterface that synthesises nothing
createNoDefaultProps(cd) == <<>>

\* a generator that declares the root interface only
createDefaultPropsRootOnly(cd) ==
    <<createSingleComponentProps(cd, NoTag)>>

\* part_000 createDefaultPropsInterface(componentData)
createDefaultPropsInterface(cd) ==
    <<createSingleComponentProps(cd, NoTag)>>
      \o [i \in 1..Len(cd.subComponents) |->
            createSingleComponentProps(cd, cd.subComponents[i])]

\* componentName.split(/[^a-zA-Z0-9]/)
\*   .map(part => part.charAt(0).toUpperCase() + part.slice(1).toLowerCase()).join('')
RECURSIVE pascalCaseNameGcp(_, _, _)
pascalCaseNameGcp(s, i, atStart) ==
    IF i > Len(s) THEN <<>>
    ELSE IF ~IsAlnum(s[i]) THEN pascalCaseNameGcp(s, i + 1, TRUE)
    ELSE <<IF atStart THEN toUpperCaseChar(s[i]) ELSE toLowerCaseChar(s[i])>>
           \o pascalCaseNameGcp(s, i + 1, FALSE)

\* get-component-props.ts createDefaultPropsInterface(componentName)
createDefaultPropsInterfaceGcp(componentName) ==
    DeclText("// Default props interface based on common Shadcn patterns",
             TRUE, "interface", pascalCaseNameGcp(componentName, 1, TRUE) \o PropsW,
             [util |-> "default", ns |-> "", member |-> NoTag])

\* does /([a-zA-Z0-9_-]+)-([a-zA-Z0-9_-]+)Props/ match inside the word w
\* (a run of letters, digits, '_' and '-')
matchesHyphenatedProps(w) ==
    \E h \in 2..Len(w) :
        /\ w[h] = "-"
        /\ \E j \in (h + 2)..(Len(w) - 4) : SubSeq(w, j, j + 4) = PropsW

\* w.replace(regex, `${pascalName}Props`): the greedy match runs from the
\* start of the word to its last "Props"
fixHyphenated(w, pascalName) ==
    IF ~matchesHyphenatedProps(w) THEN w
    ELSE LET j == MaxOf({k \in 1..(Len(w) - 4) : SubSeq(w, k, k + 4) = PropsW})
         IN pascalName \o PropsW \o SubSeq(w, j + 5, Len(w))

\* part_000 formatCode(code, pascalName): prettier leaves the declarations
\* as they are; when it or cosmiconfig throws, every match of
\* ([a-zA-Z0-9_-]+)-([a-zA-Z0-9_-]+)Props in the text is replaced by
\* `${pascalName}Props`
formatCode(decls, pascalName, prettierThrows) ==
    IF ~prettierThrows THEN decls
    ELSE [i \in 1..Len(decls) |->
            [decls[i] EXCEPT !.name = fixHyphenated(@, pascalName),
                             !.body.member = fixHyphenated(@, pascalName)]]

\* get-component-props.ts formatCode(code): formatted, or unchanged when
\* prettier throws
formatCodeGcp(decls, prettierThrows) == decls

\* a check that lets every identifier through
neverFalsy(str) == FALSE

\* !componentNameOrUrl
isFalsy(str) == Len(str) = 0

(***************************************************************************)
(* Each specification exercises one part of the program; the variables of  *)
(* the other parts rest at these values.                                   *)
(***************************************************************************)
NormIdle ==
    /\ input = <<>> /\ site = NULL /\ npc = "idle"
    /\ rawName = <<>> /\ key1 = <<>> /\ key2 = <<>>

DedupIdle ==
    /\ dCd = normalizeComponentName(<<>>) /\ dFound = <<>> /\ dResult = <<>>
    /\ dExports = <<>> /\ dpc = "idle"

PredIdle ==
    /\ pName = <<>> /\ pInput = <<>> /\ pAccepted = <<>> /\ ppc = 0

NoFile == SourceFile(<<>>, {})
NoDoc == [returned |-> FALSE, decls |-> <<>>, exports |-> <<>>]

MainIdle ==
    /\ mImpl = NULL /\ mInput = <<>> /\ mpc = "idle"
    /\ mCd = normalizeComponentName(<<>>)
    /\ mRemaining = 0 /\ mFile = NoFile /\ mTierLog = <<>> /\ mFileProps = <<>>
    /\ mAllProps = <<>> /\ mDoc = NoDoc
    /\ mInstaller = FALSE /\ mSaved = FALSE /\ mExit = "running" /\ mErr = "none"

DepIdle ==
    /\ depCd = normalizeComponentName(<<>>) /\ depText = <<>>
    /\ depOp = "idle" /\ depCalls = 0

TimerIdle ==
    /\ tImpl = NULL /\ tNow = 0 /\ tTimers = <<>> /\ tpc = "idle"
    /\ tInstall = "none" /\ tOverdue = FALSE /\ tExit = "running"

ProcIdle ==
    procStarted = <<>> /\ procCalls = 0

\* formatCode has not returned
NoOut == [returned |-> FALSE, threw |-> FALSE, raised |-> FALSE, decls |-> <<>>]

FmtIdle ==
    fImpl = NULL /\ fCode = <<>> /\ fPascal = <<>> /\ fOut = NoOut

\* the save function has not run
NoSave == [done |-> FALSE, primaryFailed |-> FALSE, fallbackFailed |-> FALSE,
           attempts |-> <<>>, written |-> <<>>, console |-> FALSE, threw |-> FALSE,
           returned |-> <<>>]

SaveIdle ==
    sImpl = NULL /\ sInput = <<>> /\ sSave = NoSave /\ sExit = "running"

\* no file of the component on disk
NoScFile == [found |-> FALSE, decls |-> <<>>, text |-> <<>>]

\* findComponentFiles has not returned
NoFiles == [threw |-> FALSE, files |-> <<>>]

\* extractComponentProps has not returned
NoScDoc == [returned |-> FALSE, imports |-> <<>>, decls |-> <<>>, exports |-> <<>>]

ScIdle ==
    scInput = <<>> /\ scFile = NoScFile /\ scCd = normalizeComponentName(<<>>) /\ scFiles = NoFiles /\ scDoc = NoScDoc /\ scpc = "idle"

RoundIdle ==
    rCd = normalizeComponentName(<<>>) /\ rFile = <<>> /\ rEmitted = <<>> /\ rAgain = <<>> /\ rpc = "idle"

\* no flag given
NoOptions == [depsOnly |-> FALSE, registry |-> FALSE, verbose |-> FALSE, cleanup |-> TRUE]

CliIdle ==
    cOptions = NoOptions /\ cMissing = 0 /\ cStarted = <<>> /\ cpc = "idle"

NoCand == [found |-> FALSE, tier |-> "none", subComponent |-> <<>>, name |-> <<>>]

TagIdle ==
    tagUtil = <<>> /\ tagArg = <<>> /\ tagCand = NoCand /\ tagpc = "idle"

DefIdle ==
    defCd = normalizeComponentName(<<>>) /\ defOut = <<>> /\ defpc = "idle"

InsIdle ==
    /\ insMain = "idle" /\ insProc = "none" /\ insTimers = <<>> /\ insFallbacks = <<>>
    /\ insResolved = "pending" /\ insCd = normalizeComponentName(<<>>)

ClIdle ==
    clFiles = <<>> /\ clpc = "idle"

notNorm == <<dedupVars, predVars, mainVars, depVars, timerVars, procVars, fmtVars, saveVars, scVars, roundVars, cliVars, tagVars, defVars, insVars, clVars>>
notDedup == <<normVars, predVars, mainVars, depVars, timerVars, procVars, fmtVars, saveVars, scVars, roundVars, cliVars, tagVars, defVars, insVars, clVars>>
notPred == <<normVars, dedupVars, mainVars, depVars, timerVars, procVars, fmtVars, saveVars, scVars, roundVars, cliVars, tagVars, defVars, insVars, clVars>>
notMain == <<normVars, dedupVars, predVars, depVars, timerVars, procVars, fmtVars, saveVars, scVars, roundVars, cliVars, tagVars, defVars, insVars, clVars>>
notDep == <<normVars, dedupVars, predVars, mainVars, timerVars, procVars, fmtVars, saveVars, scVars, roundVars, cliVars, tagVars, defVars, insVars, clVars>>
notTimer == <<normVars, dedupVars, predVars, mainVars, depVars, procVars, fmtVars, saveVars, scVars, roundVars, cliVars, tagVars, defVars, insVars, clVars>>
notProc == <<normVars, dedupVars, predVars, mainVars, depVars, timerVars, fmtVars, saveVars, scVars, roundVars, cliVars, tagVars, defVars, insVars, clVars>>
notFmt == <<normVars, dedupVars, predVars, mainVars, depVars, timerVars, procVars, saveVars, scVars, roundVars, cliVars, tagVars, defVars, insVars, clVars>>
notSave == <<normVars, dedupVars, predVars, mainVars, depVars, timerVars, procVars, fmtVars, scVars, roundVars, cliVars, tagVars, defVars, insVars, clVars>>
notSc == <<normVars, dedupVars, predVars, mainVars, depVars, timerVars, procVars, fmtVars, saveVars, roundVars, cliVars, tagVars, defVars, insVars, clVars>>
notRound == <<normVars, dedupVars, predVars, mainVars, depVars, timerVars, procVars, fmtVars, saveVars, scVars, cliVars, tagVars, defVars, insVars, clVars>>
notCli == <<normVars, dedupVars, predVars, mainVars, depVars, timerVars, procVars, fmtVars, saveVars, scVars, roundVars, tagVars, defVars, insVars, clVars>>
notTag == <<normVars, dedupVars, predVars, mainVars, depVars, timerVars, procVars, fmtVars, saveVars, scVars, roundVars, cliVars, defVars, insVars, clVars>>
notDef == <<normVars, dedupVars, predVars, mainVars, depVars, timerVars, procVars, fmtVars, saveVars, scVars, roundVars, cliVars, tagVars, insVars, clVars>>
notIns == <<normVars, dedupVars, predVars, mainVars, depVars, timerVars, procVars, fmtVars, saveVars, scVars, roundVars, cliVars, tagVars, defVars, clVars>>
notCl == <<normVars, dedupVars, predVars, mainVars, depVars, timerVars, procVars, fmtVars, saveVars, scVars, roundVars, cliVars, tagVars, defVars, insVars>>

(***************************************************************************)
(* SpecNorm: the name normaliser applied to an identifier, then to its own *)
(* output                                                                  *)
(***************************************************************************)
MaxNameLen == 4

BodyChars == {"a", "B", "1", "-", "/", "?"}
Prefixes == {<<>>, HTTP, HTTP \o <<":", "/", "/">>}

RECURSIVE StringsUpTo(_)
StringsUpTo(n) ==
    IF n = 0 THEN {<<>>}
    ELSE LET shorter == StringsUpTo(n - 1)
         IN shorter \cup {Append(s, c) : s \in {t \in shorter : Len(t) = n - 1}, c \in BodyChars}

Inputs == {p \o b : p \in Prefixes, b \in StringsUpTo(MaxNameLen)}

InitNorm ==
    /\ DedupIdle /\ PredIdle /\ MainIdle /\ DepIdle /\ TimerIdle /\ ProcIdle /\ FmtIdle /\ SaveIdle /\ ScIdle /\ RoundIdle /\ CliIdle /\ TagIdle /\ DefIdle /\ InsIdle /\ ClIdle
    /\ input \in Inputs
    /\ site = NULL
    /\ npc = "start"
    /\ rawName = <<>> /\ key1 = <<>> /\ key2 = <<>>

\* part_000 normalizeComponentName(input)
NormalizeComponentName ==
    /\ npc = "start"
    /\ LET cd == normalizeComponentName(input)
       IN /\ rawName' = cd.componentName
          /\ key1' = cd.normalizedName
    /\ site' = "normalizeComponentName"
    /\ npc' = "once"
    /\ UNCHANGED <<input, key2, notNorm>>

\* component-registry.ts getComponentDependencies(componentName)
GetComponentDependencies ==
    /\ npc = "start"
    /\ rawName' = input
    /\ key1' = getComponentDependenciesKey(input)
    /\ site' = "getComponentDependencies"
    /\ npc' = "once"
    /\ UNCHANGED <<input, key2, notNorm>>

\* get-component-props.ts: extractComponentName(input), then the key that
\* findComponentFiles computes from the extracted name
FindComponentFilesGcp ==
    /\ npc = "start"
    /\ LET r == extractComponentName(input)
       IN IF r.threw
          THEN /\ npc' = "threw"
               /\ UNCHANGED <<rawName, key1>>
          ELSE /\ npc' = "once"
               /\ rawName' = r.name
               /\ key1' = findComponentFilesKey(r.name)
    /\ site' = "findComponentFiles"
    /\ UNCHANGED <<input, key2, notNorm>>

\* the same site normalises the key it produced
Renormalize ==
    /\ npc = "once"
    /\ key2' = CASE site = "normalizeComponentName" ->
                        normalizeComponentName(key1).normalizedName
                 [] site = "getComponentDependencies" ->
                        getComponentDependenciesKey(key1)
                 [] site = "findComponentFiles" ->
                        findComponentFilesKey(key1)
    /\ npc' = "twice"
    /\ UNCHANGED <<input, site, rawName, key1, notNorm>>

NextNorm ==
    \/ NormalizeComponentName
    \/ GetComponentDependencies
    \/ FindComponentFilesGcp
    \/ Renormalize

SpecNorm == InitNorm /\ [][NextNorm]_vars

\* C8: at every site that computes the kebab-case key, normalising the key
\* again gives the same key.
C8_NormalizationIdempotent ==
    npc = "twice" => key2 = key1

\* C8 witness: a camel-cased identifier was normalised twice and the first
\* pass really changed it.
C8_Witness ==
    /\ npc = "twice"
    /\ site = "normalizeComponentName"
    /\ key1 # rawName
    /\ \E i \in 1..Len(rawName) : IsUpper(rawName[i])
    /\ \E i \in 1..Len(key1) : key1[i] = "-"

\* The final path segment of a URL once its query string and fragment are
\* removed.
FinalPathSegment(url) == splitPop(splitQueryFirst(url), "/")

\* C9 (as stated): for a URL input the raw name is the final path segment
\* without query string and fragment; any other input is used unchanged.
\* Stated for the URLs that begin with "http://" and whose final path
\* segment is not empty.
C9_RawNameIsFinalSegment ==
    (npc \in {"once", "twice"} /\ site \in {"normalizeComponentName", "findComponentFiles"}) =>
        IF startsWith(input, HTTP)
        THEN (startsWith(input, HTTP \o <<":", "/", "/">>) /\ FinalPathSegment(input) # <<>>) =>
                 rawName = FinalPathSegment(input)
        ELSE rawName = input

(***************************************************************************)
(* SpecDedup: deduplicateAndNameProps over the candidate lists of the      *)
(* files of one request, then generateTypeExports                          *)
(***************************************************************************)
MaxCands == 3

ItemW == <<"I", "t", "e", "m">>
RootW == <<"R", "o", "o", "t">>

TypeRef(util, member) == [util |-> util, ns |-> "Primitive", member |-> member]
Body(id) == [util |-> "literal", ns |-> id, member |-> NoTag]

\* what the extraction tiers can hand to deduplicateAndNameProps for a
\* component whose type-name prefix is pascalName
CandidateUniverse(pascalName) ==
    { declaredCandidate(TRUE, "interface", pascalName \o PropsW, Body("b1")),
      declaredCandidate(TRUE, "interface", pascalName \o ItemW \o PropsW, Body("b2")),
      componentPropsCandidate(pascalName, TypeRef("ComponentProps", ItemW)),
      componentPropsCandidate(pascalName, TypeRef("ComponentPropsWithoutRef", ItemW)),
      componentPropsCandidate(pascalName, TypeRef("ComponentProps", RootW)),
      componentPropsCandidate(pascalName, TypeRef("ComponentProps", NoTag)),
      componentPropsCandidate(pascalName, TypeRef("ComponentProps", MainW)),
      componentPropsCandidate(pascalName, TypeRef("ComponentProps", PropsW)) }

RECURSIVE ListsUpTo(_, _)
ListsUpTo(U, n) ==
    IF n = 0 THEN {<<>>}
    ELSE LET shorter == ListsUpTo(U, n - 1)
         IN shorter \cup {Append(l, c) : l \in {t \in shorter : Len(t) = n - 1}, c \in U}

InitDedup ==
    /\ NormIdle /\ PredIdle /\ MainIdle /\ DepIdle /\ TimerIdle /\ ProcIdle /\ FmtIdle /\ SaveIdle /\ ScIdle /\ RoundIdle /\ CliIdle /\ TagIdle /\ DefIdle /\ InsIdle /\ ClIdle
    /\ dCd \in {normalizeComponentName(<<"a", "b">>), normalizeComponentName(<<"a", "-", "b">>)}
    /\ dFound = <<>>
    /\ dResult = <<>>
    /\ dExports = <<>>
    /\ dpc = "ready"

\* extractPropsFromFile hands the candidates of one file to deduplicateAndNameProps
DeduplicateAndNameProps ==
    /\ dpc = "ready"
    /\ \E found \in ListsUpTo(CandidateUniverse(dCd.pascalName), MaxCands) :
         LET r == deduplicateAndNameProps(found, dCd)
         IN /\ dFound' = found
            /\ dResult' = r.result
            /\ dCd' = [dCd EXCEPT !.subComponents = r.subComponents]
    /\ dpc' = "deduped"
    /\ UNCHANGED <<dExports, notDedup>>

\* extractComponentProps: allProps.push(...fileProps), on to the next file
NextFile ==
    /\ dpc = "deduped"
    /\ dFound' = <<>>
    /\ dResult' = <<>>
    /\ dpc' = "ready"
    /\ UNCHANGED <<dCd, dExports, notDedup>>

\* extractComponentProps calls generateTypeExports once all files are processed
GenerateTypeExports ==
    /\ dpc = "ready"
    /\ dExports' = generateTypeExports(dCd)
    /\ dpc' = "exported"
    /\ UNCHANGED <<dCd, dFound, dResult, notDedup>>

NextDedup ==
    \/ DeduplicateAndNameProps
    \/ NextFile
    \/ GenerateTypeExports

SpecDedup == InitDedup /\ [][NextDedup]_vars

TagsOf(found) == {found[i].subComponent : i \in 1..Len(found)} \ {NoTag}

\* C5 (as stated): for a candidate list with at least two distinct
\* sub-component tags, every non-root candidate returned by
\* deduplicateAndNameProps has a declared type name different from that of
\* every other returned candidate, and root candidates keep their names.
C5_NonRootNamesDistinct ==
    (dpc = "deduped" /\ Cardinality(TagsOf(dFound)) >= 2) =>
        /\ \A i, j \in 1..Len(dResult) :
              (i # j /\ dResult[i].group # MainW) =>
                  dResult[i].text.name # dResult[j].text.name
        /\ LET rootsIn == SelectSeq(dFound, LAMBDA p : p.subComponent = NoTag)
               rootsOut == SelectSeq(dResult, LAMBDA r : r.group = MainW)
           IN /\ Len(rootsOut) >= Len(rootsIn)
              /\ \A i \in 1..Len(rootsIn) :
                    \E j \in 1..Len(rootsOut) : rootsOut[j].text = rootsIn[i].text

ExportedNames(pieces) ==
    LET named == SelectSeq(pieces, LAMBDA x : x.k = "name")
    IN [i \in 1..Len(named) |-> named[i].v]

CountPieces(pieces, k) == Len(SelectSeq(pieces, LAMBDA x : x.k = k))

C21_RegistryHoldsEveryTag ==
    dpc = "deduped" =>
        /\ \A t \in TagsOf(dFound) :
              \E j \in 1..Len(dCd.subComponents) : dCd.subComponents[j] = t
        /\ \A i, j \in 1..Len(dCd.subComponents) :
              i # j => dCd.subComponents[i] # dCd.subComponents[j]

\* C22 (as stated): the returned list has every root candidate before every
\* tagged one, the tagged groups follow each other in registry order, and
\* the candidates of one group keep their discovery order, wherever the
\* root candidates stand in the input.
C22_RootsFirstThenRegistryOrder ==
    dpc = "deduped" =>
        LET regIndex(k) == CHOOSE j \in 0..Len(dCd.subComponents) :
                              IF \E n \in 1..Len(dCd.subComponents) : dCd.subComponents[n] = k
                              THEN j > 0 /\ dCd.subComponents[j] = k
                                   /\ \A n \in 1..(j - 1) : dCd.subComponents[n] # k
                              ELSE j = 0
            inGroup(k) == SelectSeq(dFound, LAMBDA p : groupKey(p) = k)
            outGroup(k) == SelectSeq(dResult, LAMBDA r : r.group = k)
        IN /\ \A i, j \in 1..Len(dResult) :
                 (i < j /\ dResult[j].group = MainW) => dResult[i].group = MainW
           /\ \A i, j \in 1..Len(dResult) :
                 (i < j /\ dResult[i].group # MainW /\ dResult[j].group # MainW) =>
                     regIndex(dResult[i].group) <= regIndex(dResult[j].group)
           /\ \A i \in 1..Len(dResult) :
                 LET k == dResult[i].group
                 IN /\ Len(outGroup(k)) = Len(inGroup(k))
                    /\ \A n \in 1..Len(inGroup(k)) :
                          outGroup(k)[n].text.body = inGroup(k)[n].text.body

(***************************************************************************)
(* SpecPred: one named interface / type-alias declaration is scanned by    *)
(* every extraction tier of both generations                               *)
(***************************************************************************)
MaxFragments == 2

NameFragments ==
    { PropsW, propsLower,
      <<"A", "t", "t", "r", "i", "b", "u", "t", "e", "s">>, attributesLower,
      <<"A", "b">>, <<"a", "b">>, <<"X">> }

RECURSIVE NamesUpTo(_)
NamesUpTo(n) ==
    IF n = 1 THEN NameFragments
    ELSE NamesUpTo(n - 1) \cup {a \o b : a \in NamesUpTo(n - 1), b \in NameFragments}

Tiers == <<"tsMorph", "regex", "tsMorphGcp", "babelGcp", "regexGcp">>

InitPred ==
    /\ NormIdle /\ DedupIdle /\ MainIdle /\ DepIdle /\ TimerIdle /\ ProcIdle /\ FmtIdle /\ SaveIdle /\ ScIdle /\ RoundIdle /\ CliIdle /\ TagIdle /\ DefIdle /\ InsIdle /\ ClIdle
    /\ pName \in NamesUpTo(MaxFragments)
    /\ pInput \in {<<"a", "b">>, <<"a", "B">>, <<"a", "-", "b">>}
    /\ pAccepted = [t \in 1..Len(Tiers) |-> "unset"]
    /\ ppc = 0

YesNo(b) == IF b THEN "yes" ELSE "no"

\* part_000 extractPropsFromFile: ts-morph scan
TsMorphScan ==
    /\ ppc = 0
    /\ pAccepted' = [pAccepted EXCEPT ![1] =
                        YesNo(tsMorphAccepts(pName, normalizeComponentName(pInput)))]
    /\ ppc' = 1
    /\ UNCHANGED <<pName, pInput, notPred>>

\* part_000 extractPropsFromFile: regex fallback
RegexScan ==
    /\ ppc = 1
    /\ pAccepted' = [pAccepted EXCEPT ![2] =
                        YesNo(regexAccepts(pName, normalizeComponentName(pInput)))]
    /\ ppc' = 2
    /\ UNCHANGED <<pName, pInput, notPred>>

\* get-component-props.ts extractPropsWithTsMorph
TsMorphScanGcp ==
    /\ ppc = 2
    /\ pAccepted' = [pAccepted EXCEPT ![3] =
                        YesNo(tsMorphAcceptsGcp(pName, extractComponentName(pInput).name))]
    /\ ppc' = 3
    /\ UNCHANGED <<pName, pInput, notPred>>

\* get-component-props.ts extractPropsWithBabel
BabelScanGcp ==
    /\ ppc = 3
    /\ pAccepted' = [pAccepted EXCEPT ![4] =
                        YesNo(babelAcceptsGcp(pName, extractComponentName(pInput).name))]
    /\ ppc' = 4
    /\ UNCHANGED <<pName, pInput, notPred>>

\* get-component-props.ts extractPropsWithRegex
RegexScanGcp ==
    /\ ppc = 4
    /\ pAccepted' = [pAccepted EXCEPT ![5] =
                        YesNo(regexAcceptsGcp(pName, extractComponentName(pInput).name))]
    /\ ppc' = 5
    /\ UNCHANGED <<pName, pInput, notPred>>

NextPred ==
    \/ TsMorphScan
    \/ RegexScan
    \/ TsMorphScanGcp
    \/ BabelScanGcp
    \/ RegexScanGcp

SpecPred == InitPred /\ [][NextPred]_vars

\* C4 (as stated): every tier accepts a named interface / type-alias
\* declaration exactly when isPropsType holds of its name, so all tiers of
\* one generation accept the same names.
C4_TiersAcceptIffIsPropsType ==
    ppc = 5 =>
        /\ pAccepted[1] = YesNo(isPropsType(pName, normalizeComponentName(pInput)))
        /\ pAccepted[2] = YesNo(isPropsType(pName, normalizeComponentName(pInput)))
        /\ pAccepted[3] = YesNo(isPropsTypeGcp(pName, extractComponentName(pInput).name))
        /\ pAccepted[4] = YesNo(isPropsTypeGcp(pName, extractComponentName(pInput).name))
        /\ pAccepted[5] = YesNo(isPropsTypeGcp(pName, extractComponentName(pInput).name))

\* the predicate as the claim words it: the name is a props marker word, or
\* contains one, or holds (case-insensitively) one of the component's names
\* together with a props or an attributes marker
looksLikePropsType(name, cd) ==
    LET lowerName == toLowerCase(name)
    IN \/ lowerName = propsLower
       \/ includes(name, PropsW)
       \/ /\ \/ includes(lowerName, toLowerCase(cd.componentName))
             \/ includes(lowerName, toLowerCase(cd.normalizedName))
             \/ includes(lowerName, toLowerCase(cd.pascalName))
          /\ \/ includes(lowerName, propsLower)
             \/ includes(lowerName, attributesLower)

\* C26 (as stated): isPropsType accepts a name exactly when it is or
\* contains a props marker word, or contains the component's raw, normalized
\* or Pascal name (whatever the case) together with a props or an attributes
\* marker.
C26_IsPropsTypeAcceptsAttributes ==
    ppc >= 1 =>
        pAccepted[1] = YesNo(looksLikePropsType(pName, normalizeComponentName(pInput)))

(***************************************************************************)
(* Spec: one request from main to process exit, in either generation of    *)
(* the extractor                                                           *)
(***************************************************************************)
MaxFiles == 2
MaxDecls == 2

AbW == <<"a", "b">>

\* what a component file can contain
FileDecls ==
    { FileDecl("interface", TRUE, <<"A", "b">> \o PropsW, Body("b1")),
      FileDecl("typeref", FALSE, <<>>, TypeRef("ComponentProps", ItemW)),
      FileDecl("interface", FALSE, <<"X">>, Body("b2")) }

FileUniverse ==
    { SourceFile(ds, th) : ds \in ListsUpTo(FileDecls, MaxDecls),
                           th \in SUBSET {"tsMorph", "babel", "readFile"} }

Init ==
    /\ NormIdle /\ DedupIdle /\ PredIdle /\ DepIdle /\ TimerIdle /\ ProcIdle /\ FmtIdle /\ SaveIdle /\ ScIdle /\ RoundIdle /\ CliIdle /\ TagIdle /\ DefIdle /\ InsIdle /\ ClIdle
    /\ mImpl \in {"gcp", "p000"}
    /\ mInput \in {<<>>, AbW}
    /\ mpc = "start"
    /\ mCd = normalizeComponentName(<<>>)
    /\ mRemaining = 0 /\ mFile = NoFile /\ mTierLog = <<>> /\ mFileProps = <<>>
    /\ mAllProps = <<>> /\ mDoc = NoDoc
    /\ mInstaller = FALSE /\ mSaved = FALSE /\ mExit = "running" /\ mErr = "none"

\* main, up to the first await: the empty-identifier check, then (part_000)
\* normalizeComponentName
Main ==
    /\ mpc = "start"
    /\ IF isFalsy(mInput)
       THEN /\ mErr' = "invalid-input"
            /\ mpc' = "failed"
            /\ mCd' = mCd
       ELSE /\ mErr' = mErr
            /\ mpc' = "install"
            /\ mCd' = IF mImpl = "p000" THEN normalizeComponentName(mInput) ELSE mCd
    /\ UNCHANGED <<mImpl, mInput, mRemaining, mFile, mTierLog, mFileProps, mAllProps,
                   mDoc, mInstaller, mSaved, mExit, notMain>>

\* installShadcnComponent: the component is already present, or the
\* installer CLI is run (and succeeds or fails; the request goes on either
\* way).  get-component-props.ts first derives the name with
\* extractComponentName, which throws on an empty identifier.
InstallShadcnComponent ==
    /\ mpc = "install"
    /\ IF mImpl = "gcp" /\ extractComponentName(mInput).threw
       THEN /\ mErr' = "invalid-input"
            /\ mpc' = "failed"
            /\ UNCHANGED <<mCd, mInstaller>>
       ELSE /\ \E outcome \in {"present", "installed", "failed"} :
                 mInstaller' = (outcome # "present")
            /\ mCd' = IF mImpl = "gcp"
                      THEN [mCd EXCEPT !.componentName = extractComponentName(mInput).name]
                      ELSE mCd
            /\ mpc' = "discover"
            /\ mErr' = mErr
    /\ UNCHANGED <<mImpl, mInput, mRemaining, mFile, mTierLog, mFileProps, mAllProps,
                   mDoc, mSaved, mExit, notMain>>

\* the document of the catch branch of extractComponentProps /
\* extractAllComponentProps
defaultDocument(impl, cd, prettierThrows) ==
    [returned |-> TRUE,
     decls |-> IF impl = "gcp"
               THEN formatCodeGcp(<<createDefaultPropsInterfaceGcp(cd.componentName)>>,
                                  prettierThrows)
               ELSE formatCode(createDefaultPropsInterface(cd), cd.pascalName, prettierThrows),
     exports |-> <<>>]

\* extractComponentProps / extractAllComponentProps, first part:
\* findComponentFiles returns one or more paths (a stub file when nothing
\* was found; part_000 also registers the sub-components its content scan
\* saw), or throws and the catch branch returns the default document
FindComponentFiles ==
    /\ mpc = "discover"
    /\ \/ /\ \E n \in 1..MaxFiles : mRemaining' = n
          /\ \E tags \in {<<>>, <<ItemW>>} :
                mCd' = IF mImpl = "p000" THEN [mCd EXCEPT !.subComponents = tags] ELSE mCd
          /\ mpc' = "extract"
          /\ mDoc' = mDoc
       \/ /\ \E prettierThrows \in BOOLEAN :
                mDoc' = defaultDocument(mImpl, mCd, prettierThrows)
          /\ mpc' = "save"
          /\ UNCHANGED <<mRemaining, mCd>>
    /\ UNCHANGED <<mImpl, mInput, mFile, mTierLog, mFileProps, mAllProps,
                   mInstaller, mSaved, mExit, mErr, notMain>>

\* one iteration of the file loop: extractPropsFromFile on the next file;
\* its content is whatever the file system holds
ExtractPropsFromFile ==
    /\ mpc = "extract"
    /\ mRemaining > 0
    /\ \E file \in FileUniverse :
          /\ mFile' = file
          /\ IF mImpl = "gcp"
             THEN LET r == extractPropsFromFileGcp(file, mCd.componentName)
                  IN /\ mTierLog' = r.log
                     /\ mFileProps' = r.props
                     /\ mAllProps' = IF Len(r.props) > 0 THEN mAllProps \o r.props
                                     ELSE mAllProps
                     /\ mCd' = mCd
             ELSE LET r == extractPropsFromFile(file, mCd)
                  IN /\ mTierLog' = r.log
                     /\ mFileProps' = r.props
                     /\ mAllProps' = mAllProps \o r.props
                     /\ mCd' = [mCd EXCEPT !.subComponents = r.subComponents]
    /\ mRemaining' = mRemaining - 1
    /\ UNCHANGED <<mImpl, mInput, mpc, mDoc, mInstaller, mSaved, mExit, mErr, notMain>>

\* extractComponentProps / extractAllComponentProps, after the loop:
\* defaults when nothing was merged, R.uniqBy (part_000 only), imports,
\* type exports, formatCode
AssembleDocument ==
    /\ mpc = "extract"
    /\ mRemaining = 0
    /\ \E prettierThrows \in BOOLEAN :
          mDoc' = IF mImpl = "gcp"
                  THEN [returned |-> TRUE,
                        decls |-> formatCodeGcp(
                                    IF Len(mAllProps) = 0
                                    THEN <<createDefaultPropsInterfaceGcp(mCd.componentName)>>
                                    ELSE mAllProps, prettierThrows),
                        exports |-> <<>>]
                  ELSE [returned |-> TRUE,
                        decls |-> formatCode(
                                    uniq(IF Len(mAllProps) = 0
                                         THEN createDefaultPropsInterface(mCd)
                                         ELSE mAllProps), mCd.pascalName, prettierThrows),
                        exports |-> generateTypeExports(mCd)]
    /\ mpc' = "save"
    /\ UNCHANGED <<mImpl, mInput, mCd, mRemaining, mFile, mTierLog, mFileProps, mAllProps,
                   mInstaller, mSaved, mExit, mErr, notMain>>

\* savePropTypes / savePropsToFile: the named file, else the fallback file,
\* else the error that ends the request
SaveProps ==
    /\ mpc = "save"
    /\ \E outcome \in {"named", "fallback", "failed"} :
          /\ mSaved' = (outcome # "failed")
          /\ mpc' = IF outcome = "failed" THEN "failed" ELSE "cleanup"
          /\ mErr' = IF outcome = "failed" THEN "write" ELSE mErr
    /\ UNCHANGED <<mImpl, mInput, mCd, mRemaining, mFile, mTierLog, mFileProps, mAllProps,
                   mDoc, mInstaller, mExit, notMain>>

\* main, success path: timer cleared, cleanupTempFiles, preview, normal end
Succeed ==
    /\ mpc = "cleanup"
    /\ mExit' = "0"
    /\ mpc' = "done"
    /\ UNCHANGED <<mImpl, mInput, mCd, mRemaining, mFile, mTierLog, mFileProps, mAllProps,
                   mDoc, mInstaller, mSaved, mErr, notMain>>

\* main, catch branch: report, cleanupTempFiles, process.exit(1)
Fail ==
    /\ mpc = "failed"
    /\ mExit' = "1"
    /\ mpc' = "done"
    /\ UNCHANGED <<mImpl, mInput, mCd, mRemaining, mFile, mTierLog, mFileProps, mAllProps,
                   mDoc, mInstaller, mSaved, mErr, notMain>>

\* the global timer fires while main is waiting: process.exit(1)
Timeout ==
    /\ mpc \in {"install", "discover", "extract", "save"}
    /\ mErr' = "timeout"
    /\ mExit' = "1"
    /\ mpc' = "done"
    /\ UNCHANGED <<mImpl, mInput, mCd, mRemaining, mFile, mTierLog, mFileProps, mAllProps,
                   mDoc, mInstaller, mSaved, notMain>>

Next ==
    \/ Main
    \/ InstallShadcnComponent
    \/ FindComponentFiles
    \/ ExtractPropsFromFile
    \/ AssembleDocument
    \/ SaveProps
    \/ Succeed
    \/ Fail
    \/ Timeout

Spec == Init /\ [][Next]_vars

\* C1: whatever discovery and the per-file extractions did, the extraction
\* stage returns a document with at least one props declaration, and when
\* the merged candidate list is empty the declarations are those of
\* createDefaultPropsInterface.
C1_DocumentNeverEmpty ==
    mDoc.returned =>
        /\ Len(mDoc.decls) >= 1
        /\ Len(mAllProps) = 0 =>
              mDoc.decls = IF mImpl = "gcp"
                           THEN <<createDefaultPropsInterfaceGcp(mCd.componentName)>>
                           ELSE createDefaultPropsInterface(mCd)

\* C1 witness: every processed file yielded nothing (the last one because a
\* tier threw) and the document was returned with the defaults.
C1_Witness ==
    /\ mDoc.returned
    /\ Len(mAllProps) = 0
    /\ mTierLog # <<>>
    /\ \E i \in 1..Len(mTierLog) : mTierLog[i].caught

\* the tier chain of each generation
Chain(impl) == IF impl = "gcp" THEN <<"tsMorph", "babel", "regex">>
               ELSE <<"tsMorph", "regex">>

\* C2 (as stated): the tiers run in chain order, a later tier runs only if
\* every earlier one returned zero candidates, and extractPropsFromFile
\* returns exactly the list of the first tier with at least one candidate,
\* or the empty list after all tiers of the chain returned none.
C2_FirstNonEmptyTierWins ==
    (mpc = "extract" /\ mTierLog # <<>>) =>
        /\ Len(mTierLog) <= Len(Chain(mImpl))
        /\ \A i \in 1..Len(mTierLog) : mTierLog[i].tier = Chain(mImpl)[i]
        /\ \A i \in 1..(Len(mTierLog) - 1) : Len(mTierLog[i].props) = 0
        /\ IF Len(mTierLog[Len(mTierLog)].props) > 0
           THEN mFileProps = mTierLog[Len(mTierLog)].props
           ELSE Len(mTierLog) = Len(Chain(mImpl)) /\ mFileProps = <<>>

\* C3 (as stated): a tier that throws counts as zero candidates of that tier
\* only; the next tier of the chain is still tried on the same file.
C3_ThrowingTierAdvancesChain ==
    (mpc = "extract" /\ mTierLog # <<>>) =>
        \A i \in 1..Len(mTierLog) :
            (mTierLog[i].caught /\ i < Len(Chain(mImpl))) =>
                /\ Len(mTierLog) > i
                /\ mTierLog[i + 1].tier = Chain(mImpl)[i + 1]

\* C6 (as stated): no declaration text occurs twice in the declaration list
\* of the returned document; of the texts merged from the files exactly one
\* copy each remains, at the position of its first occurrence.
C6_NoDuplicateDeclarations ==
    mDoc.returned =>
        /\ \A i, j \in 1..Len(mDoc.decls) : i # j => mDoc.decls[i] # mDoc.decls[j]
        /\ Len(mAllProps) > 0 => mDoc.decls = uniq(mAllProps)

\* C10: an empty component identifier ends the request with the
\* invalid-input error and exit code 1, and at no point of such a request
\* was an installer process started or an output file written.
C10_EmptyIdentifierFailsFirst ==
    mInput = <<>> =>
        /\ ~mInstaller
        /\ ~mSaved
        /\ mpc \in {"idle", "start", "failed", "done"}
        /\ mpc \in {"failed", "done"} => mErr = "invalid-input"
        /\ mpc = "done" => mExit = "1"

\* C10 witness: a request with the empty identifier has ended.
C10_Witness ==
    /\ mpc = "done"
    /\ mInput = <<>>
    /\ mExit = "1"
    /\ mErr = "invalid-input"

(***************************************************************************)
(* SpecDeps: the dependency profile of one request under any sequence of   *)
(* detectDependenciesFromText, extractPrimitiveImportsFromContent and       *)
(* addTypicalDependencies                                                   *)
(***************************************************************************)
MaxStmts == 1
MaxDepCalls == 2

AccordionW == <<"a", "c", "c", "o", "r", "d", "i", "o", "n">>
AccordionPrimitiveW == <<"A", "c", "c", "o", "r", "d", "i", "o", "n", "P", "r", "i", "m", "i", "t", "i", "v", "e">>
TabsPrimitiveW == <<"T", "a", "b", "s", "P", "r", "i", "m", "i", "t", "i", "v", "e">>

\* the statements a scanned text (installer output, component file) can hold
Statements ==
    { Stmt("importNs", AccordionPrimitiveW, RadixScope \o AccordionW, <<>>),
      Stmt("importNamed", <<>>, RadixScope \o <<"s", "l", "o", "t">>, <<>>),
      Stmt("mention", <<>>, RadixScope \o <<"t", "o", "g", "g", "l", "e", "-", "g", "r", "o", "u", "p">>, <<>>),
      Stmt("usage", AccordionPrimitiveW, <<>>, ItemW),
      Stmt("importNs", <<"X">> \o PrimitiveW, <<".", "/", "x">>, <<>>),
      Stmt("usage", TabsPrimitiveW, <<>>, <<"L", "i", "s", "t">>) }

Texts == ListsUpTo(Statements, MaxStmts)

InitDeps ==
    /\ NormIdle /\ DedupIdle /\ PredIdle /\ MainIdle /\ TimerIdle /\ ProcIdle /\ FmtIdle /\ SaveIdle /\ ScIdle /\ RoundIdle /\ CliIdle /\ TagIdle /\ DefIdle /\ InsIdle /\ ClIdle
    /\ depCd \in {normalizeComponentName(AccordionW), normalizeComponentName(AbW)}
    /\ depText = <<>>
    /\ depOp = "none"
    /\ depCalls = 0

DetectDependenciesFromText ==
    /\ depCalls < MaxDepCalls
    /\ \E text \in Texts, lexerReady \in BOOLEAN :
          /\ depCd' = detectDependenciesFromText(text, depCd, lexerReady)
          /\ depText' = text
    /\ depOp' = "detect"
    /\ depCalls' = depCalls + 1
    /\ UNCHANGED notDep

ExtractPrimitiveImportsFromContent ==
    /\ depCalls < MaxDepCalls
    /\ \E content \in Texts :
          /\ depCd' = extractPrimitiveImportsFromContent(content, depCd)
          /\ depText' = content
    /\ depOp' = "primitives"
    /\ depCalls' = depCalls + 1
    /\ UNCHANGED notDep

AddTypicalDependencies ==
    /\ depCalls < MaxDepCalls
    /\ depCd' = addTypicalDependencies(depCd)
    /\ depText' = <<>>
    /\ depOp' = "typical"
    /\ depCalls' = depCalls + 1
    /\ UNCHANGED notDep

NextDeps ==
    \/ DetectDependenciesFromText
    \/ ExtractPrimitiveImportsFromContent
    \/ AddTypicalDependencies

SpecDeps == InitDeps /\ [][NextDeps]_vars

\* C11: within one request the dependency profile only grows: every step
\* keeps every required package and every namespace key it had.
C11_ProfileOnlyGrows ==
    [][ /\ depCd.dependencies \subseteq depCd'.dependencies
        /\ mapKeys(depCd.primitiveImports) \subseteq mapKeys(depCd'.primitiveImports) ]_vars

\* C11 witness: after two calls the profile holds at least two packages
\* and two namespace keys.
C11_Witness ==
    /\ depCalls = 2
    /\ Cardinality(depCd.dependencies) >= 2
    /\ Len(depCd.primitiveImports) >= 2

\* the name generic inference derives for a catalogue package
inferredName(entry) == extractPrimitiveName(radixDependency(entry))

\* C12 (as stated): after detectDependenciesFromText, every catalogue
\* package the text references is recorded under the catalogue's namespace
\* name, and the name inferred from the package path, when different, is not
\* recorded for that package.
C12_CatalogueNameWins ==
    depOp = "detect" =>
        \A i \in 1..Len(radixPatterns) :
            LET e == radixPatterns[i]
            IN textMentions(mentionsLower(depText), radixPatternsLower[i]) =>
                  /\ mapHas(depCd.primitiveImports, e.primitive)
                  /\ mapGet(depCd.primitiveImports, e.primitive) = radixDependency(e)
                  /\ inferredName(e) # e.primitive =>
                        ~ /\ mapHas(depCd.primitiveImports, inferredName(e))
                          /\ mapGet(depCd.primitiveImports, inferredName(e)) = radixDependency(e)

\* the text holds the namespace import that goes with a catalogue entry
hasNamespaceImport(text, entry) ==
    \E i \in 1..Len(text) : text[i].kind = "importNs" /\ text[i].ns = entry.primitive

\* C24 (as stated): detectDependenciesFromText adds every catalogue package
\* whose name pattern matches the text to the required packages, and leaves
\* the namespace mapping of that entry as it was unless the text also holds
\* the companion namespace import.
C24_MappingOnlyWithNamespaceImport ==
    [][ (depOp' = "detect" /\ depCalls' = depCalls + 1) =>
          \A i \in 1..Len(radixPatterns) :
             LET e == radixPatterns[i]
             IN textMentions(mentionsLower(depText'), radixPatternsLower[i]) =>
                   /\ radixDependency(e) \in depCd'.dependencies
                   /\ ~hasNamespaceImport(depText', e) =>
                         /\ mapHas(depCd'.primitiveImports, e.primitive)
                               <=> mapHas(depCd.primitiveImports, e.primitive)
                         /\ mapHas(depCd.primitiveImports, e.primitive) =>
                               mapGet(depCd'.primitiveImports, e.primitive)
                                  = mapGet(depCd.primitiveImports, e.primitive) ]_vars

(***************************************************************************)
(* SpecTimers: the timers of one request.  main arms the global timer,     *)
(* the install step arms the timer of the installer CLI; timers fire in    *)
(* the order of their deadlines and, for equal deadlines, of creation.      *)
(***************************************************************************)
OPERATION_TIMEOUT == 90000
OPERATION_TIMEOUT_GCP == 60000
FALLBACK_TIMEOUT == 30000

operationTimeout(impl) == IF impl = "gcp" THEN OPERATION_TIMEOUT_GCP ELSE OPERATION_TIMEOUT

fallbackTimeout(impl) == IF impl = "gcp" THEN OPERATION_TIMEOUT_GCP ELSE FALLBACK_TIMEOUT

\* how far the clock can move between two events
Deltas == {10000, 30000}

Timer(name, deadline) == [name |-> name, deadline |-> deadline]

\* setTimeout
setTimer(timers, name, deadline) == Append(timers, Timer(name, deadline))

\* clearTimeout
clearTimer(timers, name) == SelectSeq(timers, LAMBDA t : t.name # name)

hasTimer(timers, name) == \E i \in 1..Len(timers) : timers[i].name = name

deadlineOf(timers, name) ==
    LET i == CHOOSE i \in 1..Len(timers) : timers[i].name = name IN timers[i].deadline

timerDue(timers, now) == \E i \in 1..Len(timers) : timers[i].deadline <= now

\* the timer the event loop runs next: earliest deadline, then creation order
firstDue(timers, now) ==
    LET due == {i \in 1..Len(timers) : timers[i].deadline <= now}
        i == CHOOSE i \in due :
                \A j \in due : \/ timers[i].deadline < timers[j].deadline
                               \/ timers[i].deadline = timers[j].deadline /\ i <= j
    IN timers[i]

InitTimers ==
    /\ NormIdle /\ DedupIdle /\ PredIdle /\ MainIdle /\ DepIdle /\ ProcIdle /\ FmtIdle /\ SaveIdle /\ ScIdle /\ RoundIdle /\ CliIdle /\ TagIdle /\ DefIdle /\ InsIdle /\ ClIdle
    /\ tImpl \in {"gcp", "p000"}
    /\ tNow = 0
    /\ tTimers = <<>>
    /\ tpc = "start"
    /\ tInstall = "none"
    /\ tOverdue = FALSE
    /\ tExit = "running"

\* main: setTimeout(..., OPERATION_TIMEOUT), then the install step begins
MainStarts ==
    /\ tpc = "start"
    /\ tTimers' = setTimer(tTimers, "global", tNow + operationTimeout(tImpl))
    /\ tpc' = "checking"
    /\ UNCHANGED <<tImpl, tNow, tInstall, tOverdue, tExit, notTimer>>

\* installShadcnComponent: the component files already exist
ComponentPresent ==
    /\ tpc = "checking"
    /\ ~timerDue(tTimers, tNow)
    /\ tInstall' = "present"
    /\ tpc' = "pipeline"
    /\ UNCHANGED <<tImpl, tNow, tTimers, tOverdue, tExit, notTimer>>

\* installShadcnComponent: spawn of the installer CLI and its timer
SpawnInstaller ==
    /\ tpc = "checking"
    /\ ~timerDue(tTimers, tNow)
    /\ tTimers' = setTimer(tTimers, "installer", tNow + operationTimeout(tImpl))
    /\ tpc' = "installing"
    /\ UNCHANGED <<tImpl, tNow, tInstall, tOverdue, tExit, notTimer>>

\* the installer's 'close' event: its timer is cleared; exit code 0 ends the
\* step, any other code starts the fallback invocation with its own bound
InstallerCloses ==
    /\ tpc = "installing"
    /\ ~timerDue(tTimers, tNow)
    /\ \E code \in {0, 1} :
          IF code = 0
          THEN /\ tTimers' = clearTimer(tTimers, "installer")
               /\ tInstall' = "ok"
               /\ tpc' = "pipeline"
          ELSE /\ tTimers' = setTimer(clearTimer(tTimers, "installer"), "fallback",
                                      tNow + fallbackTimeout(tImpl))
               /\ tInstall' = tInstall
               /\ tpc' = "fallback"
    /\ UNCHANGED <<tImpl, tNow, tOverdue, tExit, notTimer>>

\* the fallback invocation ends, with or without success
FallbackEnds ==
    /\ tpc = "fallback"
    /\ ~timerDue(tTimers, tNow)
    /\ \E ok \in BOOLEAN : tInstall' = IF ok THEN "ok" ELSE "failed"
    /\ tTimers' = clearTimer(tTimers, "fallback")
    /\ tpc' = "pipeline"
    /\ UNCHANGED <<tImpl, tNow, tOverdue, tExit, notTimer>>

\* the timers phase of the event loop runs the first due timer: the global
\* timer calls process.exit(1); the installer's timer kills the CLI and the
\* install step reports failure; the fallback's bound ends the fallback
TimerFires ==
    /\ tpc \in {"checking", "installing", "fallback", "pipeline"}
    /\ timerDue(tTimers, tNow)
    /\ LET t == firstDue(tTimers, tNow)
       IN /\ tOverdue' = (tOverdue \/ (tpc = "installing" /\ hasTimer(tTimers, "installer")
                                         /\ deadlineOf(tTimers, "installer") <= tNow))
          /\ IF t.name = "global"
             THEN /\ tExit' = "1"
                  /\ tpc' = "done"
                  /\ tTimers' = <<>>
                  /\ tInstall' = tInstall
             ELSE /\ tExit' = tExit
                  /\ tpc' = "pipeline"
                  /\ tTimers' = clearTimer(tTimers, t.name)
                  /\ tInstall' = IF t.name = "installer" THEN "timedOut" ELSE "failed"
    /\ UNCHANGED <<tImpl, tNow, notTimer>>

\* discovery, extraction and saving are done: clearTimeout, normal end
PipelineEnds ==
    /\ tpc = "pipeline"
    /\ ~timerDue(tTimers, tNow)
    /\ tTimers' = clearTimer(tTimers, "global")
    /\ tExit' = "0"
    /\ tpc' = "done"
    /\ UNCHANGED <<tImpl, tNow, tInstall, tOverdue, notTimer>>

\* time passes while the process waits; it cannot pass a pending deadline
Tick ==
    /\ tpc \in {"checking", "installing", "fallback", "pipeline"}
    /\ ~timerDue(tTimers, tNow)
    /\ \E d \in Deltas :
          tNow' = MinOf({tNow + d} \cup {tTimers[i].deadline : i \in 1..Len(tTimers)})
    /\ UNCHANGED <<tImpl, tTimers, tpc, tInstall, tOverdue, tExit, notTimer>>

NextTimers ==
    \/ MainStarts
    \/ ComponentPresent
    \/ SpawnInstaller
    \/ InstallerCloses
    \/ FallbackEnds
    \/ TimerFires
    \/ PipelineEnds
    \/ Tick

SpecTimers == InitTimers /\ [][NextTimers]_vars

\* C13 (as stated): when the installer CLI is still running at its time
\* bound, only the install step fails: the process is not terminated and the
\* request ends successfully.
C13_InstallerTimeoutIsRecoverable ==
    (tOverdue /\ tpc = "done") => (tExit = "0" /\ tInstall = "timedOut")

(***************************************************************************)
(* SpecProc: the external processes the tool starts.  Every handler that   *)
(* starts a child process records the command and the time bound passed    *)
(* to it (NULL when the call passes none).                                 *)
(***************************************************************************)
MaxProcCalls == 2
MaxMissing == 2
RECENT_FILES_TIMEOUT == 10000
SINGLE_INSTALL_TIMEOUT == 60000

Process(command, bound) == [command |-> command, bound |-> bound]

\* one process per dependency, in order
onePerDependency(command, bound, n) == [i \in 1..n |-> Process(command, bound)]

\* part_000 executeWithTimeout: execa with timeout: OPERATION_TIMEOUT
executeWithTimeout(command) == Process(command, OPERATION_TIMEOUT)

\* get-component-props.ts execWithTimeout: exec and a kill timer
execWithTimeout(command, timeoutMs) == Process(command, timeoutMs)

\* get-component-props.ts execShadcnCommand: spawn and a kill timer
execShadcnCommand == Process("npx shadcn", OPERATION_TIMEOUT_GCP)

\* dependency-manager.ts installDependencies: batch install, then one by one
managerInstallDependencies(missing, declined, yarn, batchFails) ==
    LET pm == IF yarn THEN "yarn add" ELSE "npm install"
    IN IF missing = 0 \/ declined THEN <<>>
       ELSE <<Process(pm, NULL)>>
            \o (IF batchFails
                THEN onePerDependency(pm, SINGLE_INSTALL_TIMEOUT, missing) ELSE <<>>)

\* part_000 installDependencies: batch install, then one by one
installDependencies(n, batchFails) ==
    IF n = 0 THEN <<>>
    ELSE <<executeWithTimeout("npm install")>>
         \o (IF batchFails
             THEN [i \in 1..n |-> executeWithTimeout("npm install")] ELSE <<>>)

\* part_000 installShadcnComponent: spawn with a kill timer, fallback execa
installShadcnComponentProcs(installed, closedOk) ==
    IF installed THEN <<>>
    ELSE <<Process("npx shadcn", OPERATION_TIMEOUT)>>
         \o (IF closedOk THEN <<>> ELSE <<Process("npx shadcn-ui", FALLBACK_TIMEOUT)>>)

\* get-component-props.ts installShadcnComponent
installShadcnComponentProcsGcp(installed, closedOk, filesAppeared) ==
    IF installed THEN <<>>
    ELSE <<execShadcnCommand>>
         \o (IF closedOk \/ filesAppeared THEN <<>>
             ELSE <<execWithTimeout("npx shadcn-ui", OPERATION_TIMEOUT_GCP)>>)

\* findComponentFiles, last resort: recently modified files
findRecentFiles(win32) ==
    <<Process(IF win32 THEN "powershell" ELSE "find", RECENT_FILES_TIMEOUT)>>

InitProc ==
    /\ NormIdle /\ DedupIdle /\ PredIdle /\ MainIdle /\ DepIdle /\ TimerIdle /\ FmtIdle /\ SaveIdle /\ ScIdle /\ RoundIdle /\ CliIdle /\ TagIdle /\ DefIdle /\ InsIdle /\ ClIdle
    /\ procStarted = <<>>
    /\ procCalls = 0

ManagerInstallDependencies ==
    /\ procCalls < MaxProcCalls
    /\ \E missing \in 0..MaxMissing, declined, yarn, batchFails \in BOOLEAN :
          procStarted' = procStarted
                \o managerInstallDependencies(missing, declined, yarn, batchFails)
    /\ procCalls' = procCalls + 1
    /\ UNCHANGED notProc

InstallDependencies ==
    /\ procCalls < MaxProcCalls
    /\ \E n \in 0..MaxMissing, batchFails \in BOOLEAN :
          procStarted' = procStarted \o installDependencies(n, batchFails)
    /\ procCalls' = procCalls + 1
    /\ UNCHANGED notProc

InstallShadcnComponentProcs ==
    /\ procCalls < MaxProcCalls
    /\ \E installed, closedOk \in BOOLEAN :
          procStarted' = procStarted \o installShadcnComponentProcs(installed, closedOk)
    /\ procCalls' = procCalls + 1
    /\ UNCHANGED notProc

InstallShadcnComponentProcsGcp ==
    /\ procCalls < MaxProcCalls
    /\ \E installed, closedOk, filesAppeared \in BOOLEAN :
          procStarted' = procStarted
                \o installShadcnComponentProcsGcp(installed, closedOk, filesAppeared)
    /\ procCalls' = procCalls + 1
    /\ UNCHANGED notProc

FindRecentFiles ==
    /\ procCalls < MaxProcCalls
    /\ \E win32 \in BOOLEAN : procStarted' = procStarted \o findRecentFiles(win32)
    /\ procCalls' = procCalls + 1
    /\ UNCHANGED notProc

NextProc ==
    \/ ManagerInstallDependencies
    \/ InstallDependencies
    \/ InstallShadcnComponentProcs
    \/ InstallShadcnComponentProcsGcp
    \/ FindRecentFiles

SpecProc == InitProc /\ [][NextProc]_vars

\* C14 (as stated): every external process the tool starts is started with
\* an upper time bound.
C14_EveryProcessBounded ==
    \A i \in 1..Len(procStarted) : procStarted[i].bound # NULL

(***************************************************************************)
(* SpecFormat: one call of formatCode on a document, the formatter (or     *)
(* its configuration lookup) failing or not.                               *)
(***************************************************************************)
MaxFmtDecls == 2

HyphenatedW == <<"a", "-", "b">> \o PropsW

\* a string-literal type: member holds the text of the literal
StringLiteral(text) == [util |-> "stringLiteral", ns |-> "", member |-> text]

\* declarations a document handed to formatCode can hold
FormatDecls ==
    { DeclText("", TRUE, "interface", AbW \o PropsW, Body("b1")),
      DeclText("", TRUE, "interface", HyphenatedW, Body("b1")),
      DeclText("", TRUE, "type", <<"K">>, StringLiteral(HyphenatedW)),
      DeclText("", TRUE, "type", <<"I">>, TypeRef("ComponentProps", ItemW)) }

InitFormat ==
    /\ NormIdle /\ DedupIdle /\ PredIdle /\ MainIdle /\ DepIdle /\ TimerIdle /\ ProcIdle /\ SaveIdle /\ ScIdle /\ RoundIdle /\ CliIdle /\ TagIdle /\ DefIdle /\ InsIdle /\ ClIdle
    /\ fImpl \in {"gcp", "p000"}
    /\ fCode \in ListsUpTo(FormatDecls, MaxFmtDecls)
    /\ fPascal \in {<<"A", "b">>, <<"X">>}
    /\ fOut = NoOut

\* formatCode: the try block returns prettier's result, the catch block the
\* document (part_000: after the hyphen fix); nothing escapes the catch
FormatCode ==
    /\ ~fOut.returned
    /\ \E prettierThrows \in BOOLEAN :
          fOut' = [returned |-> TRUE,
                   threw |-> prettierThrows,
                   raised |-> FALSE,
                   decls |-> IF fImpl = "gcp"
                             THEN formatCodeGcp(fCode, prettierThrows)
                             ELSE formatCode(fCode, fPascal, prettierThrows)]
    /\ UNCHANGED <<fImpl, fCode, fPascal, notFmt>>

NextFormat == FormatCode

SpecFormat == InitFormat /\ [][NextFormat]_vars

\* C15 (as stated): when the formatter or its configuration lookup fails,
\* formatCode does not raise and returns the document it was given.
C15_FormatFailureReturnsInput ==
    (fOut.returned /\ fOut.threw) => (~fOut.raised /\ fOut.decls = fCode)

(***************************************************************************)
(* SpecSave: writing the output document.  fs.writeFile can fail for the   *)
(* primary name, for the fallback name, or for both.                       *)
(***************************************************************************)
PropsTsW == PropsW \o <<".", "t", "s">>
PropsDashW == propsLower \o <<"-">>
TsW == <<".", "t", "s">>

\* what the save function did: the names it tried to write in order, the
\* names written, whether the document went to the console, whether it
\* threw, and the name it returned
SaveResult(primaryFailed, fallbackFailed, attempts, written, console, threw, returned) ==
    [done |-> TRUE, primaryFailed |-> primaryFailed, fallbackFailed |-> fallbackFailed,
     attempts |-> attempts, written |-> written, console |-> console, threw |-> threw,
     returned |-> returned]

\* a save that writes the fallback file whatever the primary write did
savePropTypesBothWrites(pascalName, now, primaryFails, fallbackFails) ==
    LET fileName == pascalName \o PropsTsW
        tempFileName == PropsDashW \o pascalName \o <<"-">> \o now \o TsW
    IN SaveResult(primaryFails, fallbackFails, <<fileName, tempFileName>>,
                  (IF primaryFails THEN <<>> ELSE <<fileName>>)
                     \o (IF fallbackFails THEN <<>> ELSE <<tempFileName>>),
                  FALSE, FALSE, fileName)

\* part_000 savePropTypes(propsText, componentData); now is Date.now()
savePropTypes(pascalName, now, primaryFails, fallbackFails) ==
    LET fileName == pascalName \o PropsTsW
        tempFileName == PropsDashW \o pascalName \o <<"-">> \o now \o TsW
    IN IF ~primaryFails
       THEN SaveResult(FALSE, FALSE, <<fileName>>, <<fileName>>, FALSE, FALSE, fileName)
       ELSE IF ~fallbackFails
            THEN SaveResult(TRUE, FALSE, <<fileName, tempFileName>>, <<tempFileName>>,
                            FALSE, FALSE, tempFileName)
            ELSE SaveResult(TRUE, TRUE, <<fileName, tempFileName>>, <<>>,
                            TRUE, TRUE, <<>>)

\* componentName.split(/[^a-zA-Z0-9]/)
\*   .map(part => part.charAt(0).toUpperCase() + part.slice(1)).join('')
RECURSIVE savePascalCaseName(_, _, _)
savePascalCaseName(s, i, atStart) ==
    IF i > Len(s) THEN <<>>
    ELSE IF ~IsAlnum(s[i]) THEN savePascalCaseName(s, i + 1, TRUE)
    ELSE <<IF atStart THEN toUpperCaseChar(s[i]) ELSE s[i]>>
           \o savePascalCaseName(s, i + 1, FALSE)

\* get-component-props.ts savePropsToFile(componentName, propsText)
savePropsToFile(componentName, now, primaryFails, fallbackFails) ==
    LET fileName == savePascalCaseName(componentName, 1, TRUE) \o PropsTsW
        tempFileName == PropsDashW \o now \o TsW
    IN IF ~primaryFails
       THEN SaveResult(FALSE, FALSE, <<fileName>>, <<fileName>>, FALSE, FALSE, fileName)
       ELSE IF ~fallbackFails
            THEN SaveResult(TRUE, FALSE, <<fileName, tempFileName>>, <<tempFileName>>,
                            FALSE, FALSE, tempFileName)
            ELSE SaveResult(TRUE, TRUE, <<fileName, tempFileName>>, <<>>,
                            TRUE, TRUE, <<>>)

\* identifiers of the requests whose document is saved
SaveInputs ==
    { <<"a", "b">>, <<"a", "-", "b">>, <<"a", "B">>, <<"A", "b">>, <<"x">>, <<"a", "1">> }

\* values of Date.now()
Nows == {<<"1">>, <<"2">>}

InitSave ==
    /\ NormIdle /\ DedupIdle /\ PredIdle /\ MainIdle /\ DepIdle /\ TimerIdle /\ ProcIdle /\ FmtIdle /\ ScIdle /\ RoundIdle /\ CliIdle /\ TagIdle /\ DefIdle /\ InsIdle /\ ClIdle
    /\ sImpl \in {"gcp", "p000"}
    /\ sInput \in SaveInputs
    /\ sSave = NoSave
    /\ sExit = "running"

\* part_000 main: savePropTypes(propsText, componentData)
SavePropTypes ==
    /\ sImpl = "p000"
    /\ ~sSave.done
    /\ \E now \in Nows, primaryFails, fallbackFails \in BOOLEAN :
          sSave' = savePropTypes(normalizeComponentName(sInput).pascalName, now,
                                 primaryFails, fallbackFails)
    /\ UNCHANGED <<sImpl, sInput, sExit, notSave>>

\* get-component-props.ts main: savePropsToFile(componentName, propsText)
SavePropsToFile ==
    /\ sImpl = "gcp"
    /\ ~sSave.done
    /\ \E now \in Nows, primaryFails, fallbackFails \in BOOLEAN :
          sSave' = savePropsToFile(extractComponentName(sInput).name, now,
                                   primaryFails, fallbackFails)
    /\ UNCHANGED <<sImpl, sInput, sExit, notSave>>

\* main after the save: normal end, or the catch branch and process.exit(1)
MainAfterSave ==
    /\ sSave.done
    /\ sExit = "running"
    /\ sExit' = IF sSave.threw THEN "1" ELSE "0"
    /\ UNCHANGED <<sImpl, sInput, sSave, notSave>>

NextSave ==
    \/ SavePropTypes
    \/ SavePropsToFile
    \/ MainAfterSave

SpecSave == InitSave /\ [][NextSave]_vars

\* the Pascal-case prefix the generation names the file from
savePrefix ==
    IF sImpl = "p000" THEN normalizeComponentName(sInput).pascalName
    ELSE savePascalCaseName(extractComponentName(sInput).name, 1, TRUE)

\* C16: the primary name <PascalPrefix>Props.ts is tried first; the fallback
\* name is tried only after the primary write failed; the document goes to
\* the console and an error is raised (non-zero exit) only after both writes
\* failed; otherwise the returned name is the name of the one file written.
C16_SaveOrder ==
    sSave.done =>
        /\ Len(sSave.attempts) \in {1, 2}
        /\ sSave.attempts[1] = savePrefix \o PropsTsW
        /\ Len(sSave.attempts) = 2 =>
              /\ sSave.primaryFailed
              /\ sSave.attempts[2] # sSave.attempts[1]
        /\ (sSave.console \/ sSave.threw) =>
              /\ sSave.primaryFailed /\ sSave.fallbackFailed
              /\ Len(sSave.attempts) = 2
              /\ sSave.written = <<>>
        /\ ~sSave.threw =>
              /\ sSave.written = <<sSave.returned>>
              /\ \E i \in 1..Len(sSave.attempts) : sSave.attempts[i] = sSave.returned
        /\ sExit = "1" => sSave.threw
        /\ sExit = "0" => ~sSave.threw

C16_Witness ==
    /\ sSave.done /\ sSave.primaryFailed /\ ~sSave.fallbackFailed
    /\ sSave.returned = sSave.attempts[2]
    /\ sExit = "0"

(***************************************************************************)
(* SpecScenario: the two documented requests of part_000.  "accordion"     *)
(* with a component file that declares AccordionProps and uses the Item,   *)
(* Trigger and Content members of AccordionPrimitive; "not-found" with no  *)
(* component file to be found.                                             *)
(***************************************************************************)
NotFoundW == <<"n", "o", "t", "-", "f", "o", "u", "n", "d">>
TriggerW == <<"T", "r", "i", "g", "g", "e", "r">>
ContentW == <<"C", "o", "n", "t", "e", "n", "t">>
AccordionPropsW == <<"A", "c", "c", "o", "r", "d", "i", "o", "n", "P", "r", "o", "p", "s">>
RadixAccordionW == RadixScope \o AccordionW

\* the forms in which a file can use a member of the primitive namespace:
\* as a value (JSX element, displayName) or inside a props utility type
UsageForms == {"value", "ComponentProps", "ComponentPropsWithoutRef"}

\* the type-reference node of a usage, when the usage is one
usageNode(form, member) ==
    IF form = "value" THEN <<>>
    ELSE <<FileDecl("typeref", FALSE, <<>>, TypeRef(form, member))>>

\* the accordion file: its declarations and type-reference nodes as the
\* extraction tiers see them, and its statements as the dependency scan does
AccordionFile(exported, withImport, item, trigger, content) ==
    [found |-> TRUE,
     decls |-> <<FileDecl("type", exported, AccordionPropsW, TypeRef("ComponentProps", RootW)),
                 FileDecl("typeref", FALSE, <<>>, TypeRef("ComponentProps", RootW))>>
               \o usageNode(item, ItemW) \o usageNode(trigger, TriggerW)
               \o usageNode(content, ContentW),
     text |-> (IF withImport
               THEN <<Stmt("importNs", AccordionPrimitiveW, RadixAccordionW, <<>>)>>
               ELSE <<>>)
              \o <<Stmt("usage", AccordionPrimitiveW, <<>>, RootW),
                   Stmt("usage", AccordionPrimitiveW, <<>>, ItemW),
                   Stmt("usage", AccordionPrimitiveW, <<>>, TriggerW),
                   Stmt("usage", AccordionPrimitiveW, <<>>, ContentW)>>]

AccordionFiles ==
    { AccordionFile(e, w, i, t, c) : e, w \in BOOLEAN, i, t, c \in UsageForms }

\* part_000 createFallbackComponent: the stub written to .temp-component,
\* or the last-resort file written to the working directory
stubFile(cd, lastResort) ==
    [found |-> TRUE,
     decls |-> <<FileDecl("interface", TRUE, cd.pascalName \o PropsW,
                          [util |-> IF lastResort THEN "lastResort" ELSE "stub",
                           ns |-> "", member |-> NoTag])>>,
     text |-> <<>>]

\* the property names a declaration of the document declares
propertiesOf(decl) ==
    CASE decl.body.util = "default" ->
            minimalProperties \cup specificProperties(decl.body.ns)
      [] decl.body.util = "stub" -> {"children", "className", "disabled", "variant"}
      [] decl.body.util = "lastResort" -> {"children", "className"}
      [] OTHER -> {}

\* part_000 generateImports(componentData): the namespace imports after
\* `import * as React from 'react'`
generateImports(cd) == cd.primitiveImports

InitScenario ==
    /\ NormIdle /\ DedupIdle /\ PredIdle /\ MainIdle /\ DepIdle /\ TimerIdle /\ ProcIdle /\ FmtIdle /\ SaveIdle /\ RoundIdle /\ CliIdle /\ TagIdle /\ DefIdle /\ InsIdle /\ ClIdle
    /\ \/ scInput = AccordionW /\ scFile \in AccordionFiles
       \/ scInput = NotFoundW /\ scFile = NoScFile
    /\ scCd = normalizeComponentName(<<>>)
    /\ scFiles = NoFiles
    /\ scDoc = NoScDoc
    /\ scpc = "start"

\* main: normalizeComponentName; the install step leaves no file behind
\* that was not there
ScNormalize ==
    /\ scpc = "start"
    /\ scCd' = normalizeComponentName(scInput)
    /\ scpc' = "find"
    /\ UNCHANGED <<scInput, scFile, scFiles, scDoc, notSc>>

\* findComponentFiles: a file matched by the patterns is scanned for
\* dependencies (extractDependenciesFromFiles); with no match and no recent
\* file, createFallbackComponent writes the stub, else the last-resort file,
\* else throws
ScFindComponentFiles ==
    /\ scpc = "find"
    /\ IF scFile.found
       THEN \E readFails, lexerReady \in BOOLEAN :
              /\ scCd' = addTypicalDependencies(
                            IF readFails THEN scCd
                            ELSE extractPrimitiveImportsFromContent(scFile.text,
                                    detectDependenciesFromText(scFile.text, scCd, lexerReady)))
              /\ scFiles' = [threw |-> FALSE, files |-> <<scFile>>]
              /\ scFile' = scFile
       ELSE \E written \in {"stub", "lastResort", "none"} :
              /\ scCd' = scCd
              /\ scFile' = IF written = "none" THEN scFile
                           ELSE stubFile(scCd, written = "lastResort")
              /\ scFiles' = IF written = "none" THEN [threw |-> TRUE, files |-> <<>>]
                            ELSE [threw |-> FALSE, files |-> <<scFile'>>]
    /\ scpc' = "extract"
    /\ UNCHANGED <<scInput, scDoc, notSc>>

\* extractComponentProps after findComponentFiles: per-file extraction,
\* the synthetic defaults when nothing was extracted, R.uniqBy, imports,
\* export list, formatCode; the catch branch returns the defaults alone
ScExtractComponentProps ==
    /\ scpc = "extract"
    /\ \E throws \in SUBSET {"tsMorph", "readFile"}, prettierThrows \in BOOLEAN :
          IF scFiles.threw
          THEN /\ scCd' = scCd
               /\ scDoc' = [returned |-> TRUE, imports |-> <<>>,
                            decls |-> formatCode(createDefaultPropsInterface(scCd),
                                                 scCd.pascalName, prettierThrows),
                            exports |-> <<>>]
          ELSE LET r == extractPropsFromFile(SourceFile(scFiles.files[1].decls, throws), scCd)
                   cd == [scCd EXCEPT !.subComponents = r.subComponents]
                   allProps == IF Len(r.props) = 0 THEN createDefaultPropsInterface(cd)
                               ELSE r.props
               IN /\ scCd' = cd
                  /\ scDoc' = [returned |-> TRUE, imports |-> generateImports(cd),
                               decls |-> formatCode(uniq(allProps), cd.pascalName,
                                                    prettierThrows),
                               exports |-> generateTypeExports(cd)]
    /\ scpc' = "done"
    /\ UNCHANGED <<scInput, scFile, scFiles, notSc>>

NextScenario ==
    \/ ScNormalize
    \/ ScFindComponentFiles
    \/ ScExtractComponentProps

SpecScenario == InitScenario /\ [][NextScenario]_vars

\* the type names the document declares
DeclaredNames(doc) == {doc.decls[i].name : i \in 1..Len(doc.decls)}

\* C17 (as stated): for "accordion" and a file that declares AccordionProps
\* over AccordionPrimitive.Root and uses AccordionPrimitive.Item, .Trigger
\* and .Content, the document declares the root type (AccordionRootProps or
\* AccordionProps), AccordionItemProps, AccordionTriggerProps and
\* AccordionContentProps, and imports the primitive package as a namespace.
C17_AccordionScenario ==
    (scInput = AccordionW /\ scpc = "done") =>
        /\ DeclaredNames(scDoc) \cap {<<"A", "c", "c", "o", "r", "d", "i", "o", "n">> \o PropsW, <<"A", "c", "c", "o", "r", "d", "i", "o", "n">> \o RootW \o PropsW} # {}
        /\ \A m \in {ItemW, TriggerW, ContentW} :
              <<"A", "c", "c", "o", "r", "d", "i", "o", "n">> \o m \o PropsW \in DeclaredNames(scDoc)
        /\ \E i \in 1..Len(scDoc.imports) :
              /\ scDoc.imports[i].k = AccordionPrimitiveW
              /\ scDoc.imports[i].v = RadixAccordionW

\* C18 (as stated): for "not-found" with no component file, the key is
\* "not-found", the prefix "NotFound", and the document's declarations are
\* the minimal template (children and class name only) named NotFoundProps.
C18_NotFoundScenario ==
    (scInput = NotFoundW /\ scpc = "done") =>
        /\ scCd.normalizedName = NotFoundW
        /\ scCd.pascalName = <<"N", "o", "t", "F", "o", "u", "n", "d">>
        /\ Len(scDoc.decls) = 1
        /\ scDoc.decls[1].name = <<"N", "o", "t", "F", "o", "u", "n", "d">> \o PropsW
        /\ propertiesOf(scDoc.decls[1]) \ {"[key: string]"} = {"children", "className"}

\* C28 (as stated): every type name the export statement of the document
\* lists is declared by a declaration of the same document.
C28_ExportedNamesAreDeclared ==
    scpc = "done" =>
        LET names == ExportedNames(scDoc.exports)
        IN \A i \in 1..Len(names) : names[i] \in DeclaredNames(scDoc)

(***************************************************************************)
(* SpecRound: part_000 extracts from a component file, emits the           *)
(* declarations, and the structural (ts-morph) scan of extractPropsFromFile *)
(* then runs on the emitted text for the same component.                    *)
(***************************************************************************)
MaxRoundFragments == 2

PropsUtilities ==
    {"ComponentProps", "ComponentPropsWithRef", "ComponentPropsWithoutRef",
     "HTMLAttributes", "HTMLProps"}

\* a type alias over a props utility is an alias declaration and, inside
\* it, a TypeReference node
aliasOver(exported, name, ref) ==
    <<FileDecl("type", exported, name, ref), FileDecl("typeref", FALSE, <<>>, ref)>>

\* pieces of source text a component file is made of
Fragments ==
    { <<FileDecl("interface", TRUE, <<"A", "b">> \o PropsW, Body("b1"))>>,
      <<FileDecl("typeref", FALSE, <<>>, TypeRef("ComponentPropsWithoutRef", ItemW))>>,
      <<FileDecl("typeref", FALSE, <<>>, TypeRef("HTMLAttributes", <<>>))>>,
      aliasOver(FALSE, <<"A", "b">> \o PropsW, TypeRef("ComponentProps", RootW)),
      <<FileDecl("commentedType", FALSE, <<"X">> \o PropsW,
                 TypeRef("ComponentPropsWithoutRef", ItemW))>>,
      <<FileDecl("interface", FALSE, <<"X">>, Body("b2"))>> }

RoundFiles == {concatAll(l) : l \in ListsUpTo(Fragments, MaxRoundFragments)}

\* the emitted declarations as ts-morph parses them again: each is a
\* declaration of its keyword, exported if it says so or if the export list
\* names it, with the TypeReference node of its right-hand side
parseEmitted(decls, exportList) ==
    LET listed(name) == \E i \in 1..Len(exportList) : exportList[i] = name
        nodes(t) == <<FileDecl(t.kw, t.exported \/ listed(t.name), t.name, t.body)>>
                      \o (IF t.body.util \in PropsUtilities
                          THEN <<FileDecl("typeref", FALSE, <<>>, t.body)>> ELSE <<>>)
    IN concatAll([i \in 1..Len(decls) |-> nodes(decls[i])])

InitRound ==
    /\ NormIdle /\ DedupIdle /\ PredIdle /\ MainIdle /\ DepIdle /\ TimerIdle /\ ProcIdle /\ FmtIdle /\ SaveIdle /\ ScIdle /\ CliIdle /\ TagIdle /\ DefIdle /\ InsIdle /\ ClIdle
    /\ rCd \in {normalizeComponentName(AbW), normalizeComponentName(<<"a", "-", "b">>)}
    /\ rFile \in RoundFiles
    /\ rEmitted = <<>>
    /\ rAgain = <<>>
    /\ rpc = "file"

\* extractComponentProps on the one file: extraction, the synthetic
\* defaults when it yields nothing, R.uniqBy, formatCode
EmitDocument ==
    /\ rpc = "file"
    /\ \E throws \in SUBSET {"tsMorph", "readFile"}, prettierThrows \in BOOLEAN :
          LET r == extractPropsFromFile(SourceFile(rFile, throws), rCd)
              cd == [rCd EXCEPT !.subComponents = r.subComponents]
              allProps == IF Len(r.props) = 0 THEN createDefaultPropsInterface(cd)
                          ELSE r.props
          IN /\ rCd' = cd
             /\ rEmitted' = formatCode(uniq(allProps), cd.pascalName, prettierThrows)
    /\ rpc' = "emitted"
    /\ UNCHANGED <<rFile, rAgain, notRound>>

\* extractPropsFromFile on the emitted text, ts-morph scans and
\* deduplicateAndNameProps
ExtractAgain ==
    /\ rpc = "emitted"
    /\ LET file == SourceFile(parseEmitted(rEmitted, ExportedNames(generateTypeExports(rCd))), {})
           found == tsMorphCandidates(file, rCd)
       IN rAgain' = textsOf(deduplicateAndNameProps(found, rCd).result)
    /\ rpc' = "again"
    /\ UNCHANGED <<rCd, rFile, rEmitted, notRound>>

NextRound ==
    \/ EmitDocument
    \/ ExtractAgain

SpecRound == InitRound /\ [][NextRound]_vars

NamesOf(texts) == {texts[i].name : i \in 1..Len(texts)}

\* C19 (as stated): the structural tier run on the emitted declarations
\* finds candidates whose declared type names are exactly the emitted ones.
C19_ExtractionStableUnderOutput ==
    rpc = "again" => NamesOf(rAgain) = NamesOf(rEmitted)

(***************************************************************************)
(* SpecCli: one run of the command line of dependency-manager.ts, whose    *)
(* action hands the component and the flags to main of ./get-shadcn-props   *)
(* (part_000: main, installShadcnComponent, extractComponentProps).         *)
(***************************************************************************)
InitCli ==
    /\ NormIdle /\ DedupIdle /\ PredIdle /\ MainIdle /\ DepIdle /\ TimerIdle /\ ProcIdle /\ FmtIdle /\ SaveIdle /\ ScIdle /\ RoundIdle /\ TagIdle /\ DefIdle /\ InsIdle /\ ClIdle
    /\ cOptions \in [depsOnly : BOOLEAN, registry : BOOLEAN, verbose : BOOLEAN,
                     cleanup : BOOLEAN]
    /\ cMissing \in 0..MaxMissing
    /\ cStarted = <<>>
    /\ cpc = "parsed"

\* program.action: --registry prints the registry entry and returns; any
\* other run calls main(componentNameOrUrl, {depsOnly, cleanup, componentId})
CliAction ==
    /\ cpc = "parsed"
    /\ cpc' = IF cOptions.registry THEN "done" ELSE "install"
    /\ UNCHANGED <<cOptions, cMissing, cStarted, notCli>>

\* main(componentNameOrUrl): the declared parameter list has no options, the
\* second argument is dropped; installShadcnComponent runs
CliInstallShadcnComponent ==
    /\ cpc = "install"
    /\ \E installed, closedOk \in BOOLEAN :
          cStarted' = cStarted \o installShadcnComponentProcs(installed, closedOk)
    /\ cpc' = "extract"
    /\ UNCHANGED <<cOptions, cMissing, notCli>>

\* extractComponentProps: missing dependencies are installed before the
\* files are processed
CliExtractComponentProps ==
    /\ cpc = "extract"
    /\ \E batchFails \in BOOLEAN :
          cStarted' = cStarted \o installDependencies(cMissing, batchFails)
    /\ cpc' = "done"
    /\ UNCHANGED <<cOptions, cMissing, notCli>>

NextCli ==
    \/ CliAction
    \/ CliInstallShadcnComponent
    \/ CliExtractComponentProps

SpecCli == InitCli /\ [][NextCli]_vars

\* C20 (as stated): a run with --deps-only starts no package-manager
\* install process.
C20_DepsOnlyInstallsNothing ==
    cOptions.depsOnly =>
        \A i \in 1..Len(cStarted) :
            cStarted[i].command \notin {"npm install", "yarn add"}

(***************************************************************************)
(* SpecTag: one component-props utility reference, written out character   *)
(* by character, is turned into a candidate by the ts-morph scan or by the *)
(* regular-expression scan of extractPropsFromFile.                        *)
(***************************************************************************)
MaxArgLen == 4

ComponentPropsW == <<"C", "o", "m", "p", "o", "n", "e", "n", "t", "P", "r", "o", "p", "s">>
WithRefW == <<"W", "i", "t", "h", "R", "e", "f">>
WithoutRefW == <<"W", "i", "t", "h", "o", "u", "t", "R", "e", "f">>
ReactDotW == <<"R", "e", "a", "c", "t", ".">>
TypeofW == <<"t", "y", "p", "e", "o", "f", " ">>

ArgChars == {"N", "x", "1", "_", "."}
IsIdentChar(c) == IsAlnum(c) \/ c = "_"
IsLetter(c) == IsLower(c) \/ IsUpper(c)

\* dotted names: identifiers joined by single dots, none starting with a digit
IsDottedName(s) ==
    /\ Len(s) >= 1
    /\ s[1] # "." /\ s[Len(s)] # "."
    /\ \A i \in 1..Len(s) :
          /\ (s[i] = "." /\ i < Len(s)) => s[i + 1] # "."
          /\ (IsDigit(s[i]) /\ i > 1) => s[i - 1] # "."
    /\ ~IsDigit(s[1])

RECURSIVE ArgsUpTo(_)
ArgsUpTo(n) ==
    IF n = 0 THEN {<<>>}
    ELSE LET shorter == ArgsUpTo(n - 1)
         IN shorter \cup {Append(s, c) : s \in {t \in shorter : Len(t) = n - 1}, c \in ArgChars}

TypeArguments == {s \in ArgsUpTo(MaxArgLen) : IsDottedName(s)}

TagPrefix == <<"A", "b">>

\* 1 + the number of letters from position i on
RECURSIVE letterRun(_, _)
letterRun(s, i) ==
    IF i <= Len(s) /\ IsLetter(s[i]) THEN 1 + letterRun(s, i + 1) ELSE 0

\* text.match(/\.([A-Za-z]+)(?:>|,|\s|$)/) at position i: a dot, a run of
\* letters, then ">", ",", white space or the end of the text
matchesMemberAt(s, i) ==
    /\ s[i] = "."
    /\ letterRun(s, i + 1) >= 1
    /\ LET after == i + 1 + letterRun(s, i + 1)
       IN after > Len(s) \/ s[after] \in {">", ",", " "}

\* part_000 extractSubComponentName(text) on the characters of the text:
\* the first capture of the leftmost match, null without a match
extractSubComponentNameOf(text) ==
    LET at == {i \in 1..Len(text) : matchesMemberAt(text, i)}
    IN IF at = {} THEN NoTag
       ELSE LET i == MinOf(at)
            IN SubSeq(text, i + 1, i + letterRun(text, i + 1))

\* String.prototype.indexOf, 0 when absent
indexOf(s, sub) ==
    LET at == {i \in 1..(Len(s) - Len(sub) + 1) : SubSeq(s, i, i + Len(sub) - 1) = sub}
    IN IF at = {} THEN 0 ELSE MinOf(at)

\* node.getText() of the TypeReference node
referenceText(qualified, util, arg) ==
    (IF qualified THEN ReactDotW ELSE <<>>) \o util \o <<"<">> \o TypeofW \o arg \o <<">">>

Cand(tier, subComponent, name) ==
    [found |-> TRUE, tier |-> tier, subComponent |-> subComponent, name |-> name]

\* part_000 extractPropsFromFile, TypeReference descendants: the tag comes
\* from the whole text of the node
tsMorphReference(pascalName, text) ==
    IF \/ includes(text, ComponentPropsW \o <<"<">>)
       \/ includes(text, ComponentPropsW \o WithRefW \o <<"<">>)
       \/ includes(text, ComponentPropsW \o WithoutRefW \o <<"<">>)
    THEN LET subComponent == extractSubComponentNameOf(text)
         IN Cand("tsMorph", subComponent, pascalName \o subComponent \o PropsW)
    ELSE NoCand

\* part_000 extractPropsFromFile, /ComponentProps<([^>]+)>/g: the tag comes
\* from the first capture, the text between "<" and the next ">"
regexReference(pascalName, code) ==
    LET open == ComponentPropsW \o <<"<">>
        at == indexOf(code, open)
        from == at + Len(open)
        closes == {j \in from..Len(code) : code[j] = ">"}
    IN IF at = 0 \/ closes = {} \/ MinOf(closes \cup {Len(code) + 1}) = from
       THEN NoCand
       ELSE LET subComponent == extractSubComponentNameOf(SubSeq(code, from, MinOf(closes) - 1))
            IN Cand("regex", subComponent, pascalName \o subComponent \o PropsW)

InitTag ==
    /\ NormIdle /\ DedupIdle /\ PredIdle /\ MainIdle /\ DepIdle /\ TimerIdle /\ ProcIdle /\ FmtIdle /\ SaveIdle /\ ScIdle /\ RoundIdle /\ CliIdle /\ DefIdle /\ InsIdle /\ ClIdle
    /\ tagUtil \in {ComponentPropsW, ComponentPropsW \o WithRefW, ComponentPropsW \o WithoutRefW}
    /\ tagArg \in TypeArguments
    /\ tagCand = NoCand
    /\ tagpc = "ready"

\* the ts-morph scan meets the reference
TsMorphReference ==
    /\ tagpc = "ready"
    /\ \E qualified \in BOOLEAN :
          tagCand' = tsMorphReference(TagPrefix, referenceText(qualified, tagUtil, tagArg))
    /\ tagpc' = "scanned"
    /\ UNCHANGED <<tagUtil, tagArg, notTag>>

\* the regular-expression scan meets the reference
RegexReference ==
    /\ tagpc = "ready"
    /\ \E qualified \in BOOLEAN :
          tagCand' = regexReference(TagPrefix, referenceText(qualified, tagUtil, tagArg))
    /\ tagpc' = "scanned"
    /\ UNCHANGED <<tagUtil, tagArg, notTag>>

NextTag ==
    \/ TsMorphReference
    \/ RegexReference

SpecTag == InitTag /\ [][NextTag]_vars

\* the member of the trailing property access of a dotted name, null when
\* the name has no dot
trailingMember(arg) ==
    LET dots == {i \in 1..Len(arg) : arg[i] = "."}
    IN IF dots = {} THEN NoTag ELSE SubSeq(arg, MaxOf(dots) + 1, Len(arg))

\* C23 (as stated): the alias synthesised for a component-props reference
\* whose type argument ends in Namespace.X is tagged X and named
\* <Prefix>XProps; without a property access it is untagged and named
\* <Prefix>Props; in either tier.
C23_TagIsTrailingMember ==
    (tagpc = "scanned" /\ tagCand.found) =>
        /\ tagCand.subComponent = trailingMember(tagArg)
        /\ tagCand.name = TagPrefix \o trailingMember(tagArg) \o PropsW

(***************************************************************************)
(* SpecDefault: createDefaultPropsInterface is handed a component whose    *)
(* registry was filled beforehand (scanned files, registry collaborator).  *)
(***************************************************************************)
MaxTags == 3

DialogW == <<"d", "i", "a", "l", "o", "g">>

\* sub-component tags: runs of letters and digits, as the scans produce them
RegistryTags == {RootW, ItemW, TriggerW, ContentW}

\* registries hold each tag once
Registries ==
    {r \in ListsUpTo(RegistryTags, MaxTags) :
        \A i, j \in 1..Len(r) : i # j => r[i] # r[j]}

InitDefault ==
    /\ NormIdle /\ DedupIdle /\ PredIdle /\ MainIdle /\ DepIdle /\ TimerIdle /\ ProcIdle /\ FmtIdle /\ SaveIdle /\ ScIdle /\ RoundIdle /\ CliIdle /\ TagIdle /\ InsIdle /\ ClIdle
    /\ \E name \in {AccordionW, DialogW, <<"a", "-", "b">>}, registry \in Registries :
          defCd = [normalizeComponentName(name) EXCEPT !.subComponents = registry]
    /\ defOut = <<>>
    /\ defpc = "ready"

\* extractComponentProps: allProps.push(...createDefaultPropsInterface(componentData))
CreateDefaultPropsInterface ==
    /\ defpc = "ready"
    /\ defOut' = createDefaultPropsInterface(defCd)
    /\ defpc' = "created"
    /\ UNCHANGED <<defCd, notDef>>

NextDefault ==
    \/ CreateDefaultPropsInterface

SpecDefault == InitDefault /\ [][NextDefault]_vars

\* C25: for a registry of n distinct tags createDefaultPropsInterface
\* returns n + 1 declarations, <Prefix>Props first and then
\* <Prefix><Tag>Props per tag in registry order, all names different; for an
\* empty registry it returns the root declaration alone.
C25_OneDeclarationPerTagPlusRoot ==
    defpc = "created" =>
        LET tags == defCd.subComponents
        IN /\ Len(defOut) = Len(tags) + 1
           /\ defOut[1].name = defCd.pascalName \o PropsW
           /\ \A i \in 1..Len(tags) :
                 defOut[i + 1].name = defCd.pascalName \o tags[i] \o PropsW
           /\ \A i, j \in 1..Len(defOut) :
                 i # j => defOut[i].name # defOut[j].name

\* C25 witness: the generator has run on a registry of at least two tags.
C25_Witness ==
    /\ defpc = "created"
    /\ Len(defCd.subComponents) >= 2
    /\ Len(defOut) = Len(defCd.subComponents) + 1

(***************************************************************************)
(* SpecInstall: the events of installShadcnComponent inside main of        *)
(* part_000.  Both timers wait OPERATION_TIMEOUT, so they expire in the     *)
(* order of their creation.  A child process that could not be spawned     *)
(* emits 'error' and then 'close' with a negative code; one that ran emits *)
(* 'close' with its exit code, or with null once it was killed.            *)
(***************************************************************************)
\* texts the installers print: one with a namespace import, one with a
\* named import
InstallerTexts ==
    { <<Stmt("importNs", AccordionPrimitiveW, RadixScope \o AccordionW, <<>>)>>,
      <<Stmt("importNamed", <<>>, RadixScope \o <<"s", "l", "o", "t">>, <<>>)>> }

Fallback(state, late) == [state |-> state, late |-> late]

\* execa('npx', ['--yes', 'shadcn-ui@latest', 'add', ...], {timeout: 30000});
\* late records that the install promise was already settled
startFallback(fallbacks, resolved) ==
    Append(fallbacks, Fallback("running", resolved # "pending"))

\* resolve(value) of the install promise: only the first call settles it
resolve(resolved, value) ==
    IF resolved = "pending" THEN (IF value THEN "true" ELSE "false") ELSE resolved

\* clearTimeout(timeoutId)
clearTimeout(timers, name) == SelectSeq(timers, LAMBDA t : t # name)

InitInstall ==
    /\ NormIdle /\ DedupIdle /\ PredIdle /\ MainIdle /\ DepIdle /\ TimerIdle /\ ProcIdle /\ FmtIdle /\ SaveIdle /\ ScIdle /\ RoundIdle /\ CliIdle /\ TagIdle /\ DefIdle /\ ClIdle
    /\ insMain = "start"
    /\ insProc = "none"
    /\ insTimers = <<>>
    /\ insFallbacks = <<>>
    /\ insResolved = "pending"
    /\ insCd \in {normalizeComponentName(AccordionW), normalizeComponentName(AbW)}

\* main arms the global timer and awaits installShadcnComponent, which
\* returns true for an installed component and otherwise spawns the shadcn
\* CLI and arms its own timer
InsMainStarts ==
    /\ insMain = "start"
    /\ insMain' = "install"
    /\ \E installed \in BOOLEAN, spawned \in BOOLEAN :
          IF installed
          THEN /\ insResolved' = "true"
               /\ insTimers' = <<"global">>
               /\ insProc' = insProc
          ELSE /\ insResolved' = insResolved
               /\ insTimers' = <<"global", "installer">>
               /\ insProc' = IF spawned THEN "running" ELSE "spawnFailed"
    /\ UNCHANGED <<insFallbacks, insCd, notIns>>

\* childProcess.stdout.on('data'): text with 'import' or 'from' is scanned
StdoutData ==
    /\ insMain # "exited"
    /\ insProc \in {"running", "killed"}
    /\ \E text \in InstallerTexts \cup {<<>>}, lexerReady \in BOOLEAN :
          insCd' = IF text # <<>> THEN detectDependenciesFromText(text, insCd, lexerReady)
                   ELSE insCd
    /\ UNCHANGED <<insMain, insProc, insTimers, insFallbacks, insResolved, notIns>>

\* childProcess.on('error')
ChildError ==
    /\ insMain # "exited"
    /\ insProc = "spawnFailed"
    /\ insProc' = "errored"
    /\ insTimers' = clearTimeout(insTimers, "installer")
    /\ insFallbacks' = startFallback(insFallbacks, insResolved)
    /\ UNCHANGED <<insMain, insResolved, insCd, notIns>>

\* childProcess.on('close'): code 0 only from a process that ran
ChildClose ==
    /\ insMain # "exited"
    /\ insProc \in {"running", "errored", "killed"}
    /\ insProc' = "closed"
    /\ insTimers' = clearTimeout(insTimers, "installer")
    /\ \E code \in {0, 1} :
          IF insProc = "running" /\ code = 0
          THEN /\ insResolved' = resolve(insResolved, TRUE)
               /\ insFallbacks' = insFallbacks
          ELSE /\ insResolved' = insResolved
               /\ insFallbacks' = startFallback(insFallbacks, insResolved)
    /\ UNCHANGED <<insMain, insCd, notIns>>

\* the then / catch continuation of one fallback invocation
FallbackSettles ==
    /\ insMain # "exited"
    /\ \E i \in 1..Len(insFallbacks), ok \in BOOLEAN,
          stdout \in InstallerTexts \cup {<<>>}, lexerReady \in BOOLEAN :
          /\ insFallbacks[i].state = "running"
          /\ insFallbacks' = [insFallbacks EXCEPT ![i].state = "settled"]
          /\ insCd' = IF ok /\ stdout # <<>>
                      THEN detectDependenciesFromText(stdout, insCd, lexerReady)
                      ELSE insCd
          /\ insResolved' = resolve(insResolved, ok)
    /\ UNCHANGED <<insMain, insProc, insTimers, notIns>>

\* the timer that was created first expires first: the global timer ends
\* the process, the installer's kills the child and resolves false
InsTimerFires ==
    /\ insMain # "exited"
    /\ insTimers # <<>>
    /\ IF Head(insTimers) = "global"
       THEN /\ insMain' = "exited"
            /\ UNCHANGED <<insProc, insResolved>>
       ELSE /\ insProc' = IF insProc = "running" THEN "killed" ELSE insProc
            /\ insResolved' = resolve(insResolved, FALSE)
            /\ insMain' = insMain
    /\ insTimers' = Tail(insTimers)
    /\ UNCHANGED <<insFallbacks, insCd, notIns>>

\* main continues after await installShadcnComponent(componentData)
MainResumes ==
    /\ insMain = "install"
    /\ insResolved # "pending"
    /\ insMain' = "extract"
    /\ UNCHANGED <<insProc, insTimers, insFallbacks, insResolved, insCd, notIns>>

\* extractComponentProps and savePropTypes; the regular-expression tier
\* scans the file text for dependencies; then the global timer is cleared
ExtractionEnds ==
    /\ insMain = "extract"
    /\ insMain' = "done"
    /\ \E code \in InstallerTexts \cup {<<>>}, lexerReady \in BOOLEAN :
          insCd' = IF code # <<>> THEN detectDependenciesFromText(code, insCd, lexerReady)
                   ELSE insCd
    /\ insTimers' = clearTimeout(insTimers, "global")
    /\ UNCHANGED <<insProc, insFallbacks, insResolved, notIns>>

NextInstall ==
    \/ InsMainStarts
    \/ StdoutData
    \/ ChildError
    \/ ChildClose
    \/ FallbackSettles
    \/ InsTimerFires
    \/ MainResumes
    \/ ExtractionEnds

SpecInstall == InitInstall /\ [][NextInstall]_vars

\* C27 (as stated): once main has gone past the install step, no callback
\* of the install step changes componentData: every step that leaves main
\* where it is, in extraction or after it, leaves componentData alone.
C27_NoLateInstallWrites ==
    [][ (insMain \in {"extract", "done"} /\ insMain' = insMain) => insCd' = insCd ]_vars

\* C29 (as stated): at most one fallback installer is ever started, and
\* none is started once the install promise is settled.
C29_AtMostOneFallback ==
    /\ Len(insFallbacks) <= 1
    /\ \A i \in 1..Len(insFallbacks) : ~insFallbacks[i].late

(***************************************************************************)
(* SpecCleanup: the files of the working directory during one request.     *)
(* A path holds nothing, a file the user put there before the request, or  *)
(* a file the request wrote.                                               *)
(***************************************************************************)
TempDirW == <<".", "t", "e", "m", "p", "-", "c", "o", "m", "p", "o", "n", "e", "n", "t", "/">>
DefaultTsxW == <<"-", "d", "e", "f", "a", "u", "l", "t", ".", "t", "s", "x">>

StubPath == TempDirW \o <<"a", "b", ".", "t", "s", "x">>
LastResortPath == <<"a", "b">> \o DefaultTsxW
OutputPath == <<"A", "b", "P", "r", "o", "p", "s", ".", "t", "s">>

\* the paths looked at: the three the request can write, a file kept in a
\* directory named .temp-component, a *-default.tsx file of another
\* component, and a component source
Paths ==
    { StubPath, LastResortPath, OutputPath,
      TempDirW \o <<"n", "o", "t", "e", "s", ".", "m", "d">>,
      <<"t", "h", "e", "m", "e">> \o DefaultTsxW,
      <<"a", "b", ".", "t", "s", "x">> }

\* String.prototype.endsWith
endsWith(s, suffix) ==
    Len(s) >= Len(suffix) /\ SubSeq(s, Len(s) - Len(suffix) + 1, Len(s)) = suffix

\* a path below path.join(process.cwd(), '.temp-component')
inTempDir(path) == startsWith(path, TempDirW)

\* `${process.cwd()}/*-default.tsx`: a file of the working directory itself
\* whose name does not start with a dot and ends in -default.tsx
matchesDefaultGlob(path) ==
    /\ \A i \in 1..Len(path) : path[i] # "/"
    /\ path[1] # "."
    /\ endsWith(path, DefaultTsxW)

\* fs.writeFile(path, ...)
writeFile(files, path) == [files EXCEPT ![path] = "tool"]

\* part_000 cleanupTempFiles (same steps in get-component-props.ts): remove
\* the directory and all it holds, then unlink every match of the glob; an
\* error ends the function where it occurs
cleanupTempFiles(files, failsAt) ==
    LET tempDirExists == \E p \in DOMAIN files : inTempDir(p) /\ files[p] # "absent"
        removed == [p \in DOMAIN files |->
                      IF tempDirExists /\ inTempDir(p) THEN "absent" ELSE files[p]]
        unlinked == [p \in DOMAIN files |->
                      IF matchesDefaultGlob(p) THEN "absent" ELSE removed[p]]
    IN IF failsAt = "remove" /\ tempDirExists THEN files
       ELSE IF failsAt = "unlink"
                 /\ \E p \in DOMAIN files : matchesDefaultGlob(p) /\ files[p] # "absent"
            THEN removed
       ELSE unlinked

InitCleanup ==
    /\ NormIdle /\ DedupIdle /\ PredIdle /\ MainIdle /\ DepIdle /\ TimerIdle /\ ProcIdle /\ FmtIdle /\ SaveIdle /\ ScIdle /\ RoundIdle /\ CliIdle /\ TagIdle /\ DefIdle /\ InsIdle
    /\ clFiles \in [Paths -> {"absent", "user"}]
    /\ clpc = "start"

\* findComponentFiles: component files are found, or createFallbackComponent
\* writes the stub, or the last-resort file, or throws
ClFindComponentFiles ==
    /\ clpc = "start"
    /\ \E outcome \in {"found", "stub", "lastResort", "throws"} :
          /\ clFiles' = CASE outcome = "stub" -> writeFile(clFiles, StubPath)
                          [] outcome = "lastResort" -> writeFile(clFiles, LastResortPath)
                          [] OTHER -> clFiles
          /\ clpc' = IF outcome = "throws" THEN "failed" ELSE "extract"
    /\ UNCHANGED notCl

\* extractComponentProps, then savePropTypes writes the output file or throws
ClSavePropTypes ==
    /\ clpc = "extract"
    /\ \E written \in BOOLEAN :
          /\ clFiles' = IF written THEN writeFile(clFiles, OutputPath) ELSE clFiles
          /\ clpc' = IF written THEN "saved" ELSE "failed"
    /\ UNCHANGED notCl

\* main: await cleanupTempFiles() after the save, and in the catch branch
ClCleanupTempFiles ==
    /\ clpc \in {"saved", "failed"}
    /\ \E failsAt \in {"none", "remove", "unlink"} :
          clFiles' = cleanupTempFiles(clFiles, failsAt)
    /\ clpc' = IF clpc = "saved" THEN "cleaned" ELSE "cleanedAfterError"
    /\ UNCHANGED notCl

NextCleanup ==
    \/ ClFindComponentFiles
    \/ ClSavePropTypes
    \/ ClCleanupTempFiles

SpecCleanup == InitCleanup /\ [][NextCleanup]_vars

\* C30 (as stated): cleanupTempFiles, after the save and in the error
\* branch of main, leaves every file that the request did not write where
\* it is and as it is.
C30_CleanupKeepsUserFiles ==
    [][ (clpc \in {"saved", "failed"} /\ clpc' # clpc) =>
           \A p \in DOMAIN clFiles : clFiles[p] = "user" => clFiles'[p] = "user" ]_vars

====
